---------------------------- MODULE Spec2Model ----------------------------
(***************************************************************************)
(* The example notebooks of skscope (docs/source/gallery and               *)
(* docs/source/more/benchmark) as state machines.                          *)
(*                                                                         *)
(*   Spec     runs one notebook, statement by statement, on an abstract    *)
(*            Python environment (which names are bound, the shape of      *)
(*            what they are bound to, when they were bound).               *)
(*   SpecSim  runs the two survival data simulators, make_data and         *)
(*            make_Clayton2_data, on small samples with small times, and   *)
(*            then the objective of the example on the sample returned.    *)
(*   SpecMf   runs make_Clayton2_data and its objective alone, on a larger  *)
(*            sample.                                                      *)
(*   SpecBeta runs the construction of the true coefficient vector of the  *)
(*            survival examples for bounded p and k.                       *)
(*   SpecRss  runs the print cells of the linear regression example on     *)
(*            small integer data.                                          *)
(*   SpecGroup runs the construction of the group list of the multinomial  *)
(*            example and the reshape of its loss, for bounded p and m.    *)
(*   SpecCoef runs the handling of real_coef and true_support_set in       *)
(*            test_time, for bounded p, s and rep.                         *)
(*   SpecTwin runs two calls of test_time side by side that are given the  *)
(*            same arguments except random_state.                          *)
(***************************************************************************)
EXTENDS Integers, Sequences, FiniteSets, TLC

VARIABLES
    nb,       \* the notebook being run
    pc,       \* index of the next statement of Prog(nb)
    clk,      \* number of statements executed so far
    ints,     \* the integer globals n, p, k, m, s (-1: unbound)
    rng,      \* the random generator in use: [seed, pos]
    env,      \* the array-valued globals, by name
    beta,     \* the true coefficient vector of the example
    loss,     \* the loss function in scope
    solver,   \* the object bound to the name solver
    retired,  \* solve counts of the solver objects no longer bound
    res,      \* benchmark: the rows of the result table
    loops,    \* benchmark: the loop counters
    last,     \* the statement just executed, with what it observed
    first,    \* when data, loss, solve and report first happened (0: not yet)
    err,      \* "none", or the Python exception that stopped the notebook
    sim,      \* SpecSim: the simulator being run and its position
    subj,     \* SpecSim: the per-subject values of the simulator
    obj,      \* SpecSim: the call of the objective on the simulated sample
    bb,       \* SpecBeta: state of the construction of beta
    rs,       \* SpecRss: state of the print cell
    gr,       \* SpecGroup: state of the construction of the group list
    cf,       \* SpecCoef: state of the coefficient handling of test_time
    tw        \* SpecTwin: the two calls of test_time

nbVars == <<nb, pc, clk, ints, rng, env, beta, loss, solver, retired, res, loops, last, first, err>>
simVars == <<sim, subj, obj>>
betaVars == <<bb>>
rssVars == <<rs>>
grpVars == <<gr>>
coefVars == <<cf>>
twinVars == <<tw>>
vars == <<nbVars, simVars, betaVars, rssVars, grpVars, coefVars, twinVars>>

\* What each specification leaves alone.
notNb == <<simVars, betaVars, rssVars, grpVars, coefVars, twinVars>>
notSim == <<nbVars, betaVars, rssVars, grpVars, coefVars, twinVars>>
notBeta == <<nbVars, simVars, rssVars, grpVars, coefVars, twinVars>>
notRss == <<nbVars, simVars, betaVars, grpVars, coefVars, twinVars>>
notGrp == <<nbVars, simVars, betaVars, rssVars, coefVars, twinVars>>
notCoef == <<nbVars, simVars, betaVars, rssVars, grpVars, twinVars>>
notTwin == <<nbVars, simVars, betaVars, rssVars, grpVars, coefVars>>

Max(S) == CHOOSE x \in S : \A y \in S : y <= x

(***************************************************************************)
(* np.linspace(0, hi, num, dtype=int): num evenly spaced values from 0 to  *)
(* hi inclusive, each rounded down.  num = 1 gives the start alone.        *)
(***************************************************************************)
\* np.linspace with endpoint=False: the step is hi / num and hi is not produced.
LinspaceSeq_NoEndpoint(hi, num) == [j \in 1..num |-> ((j - 1) * hi) \div num]

LinspaceSeq(hi, num) ==
    IF num = 1 THEN <<0>>
    ELSE [j \in 1..num |-> ((j - 1) * hi) \div (num - 1)]

\* The positions a fancy-index assignment through that array writes.
LinspaceInt(hi, num) == { LinspaceSeq(hi, num)[j] : j \in 1..num }

(***************************************************************************)
(* Statements.  A notebook is the sequence of the statements of its code   *)
(* cells, top to bottom; line is the statement's first line in the .ipynb  *)
(* file.  uses names what the statement reads when it runs.                *)
(***************************************************************************)
SDims(l, v) == [op |-> "dims", line |-> l, vals |-> v, uses |-> {}]
\* A generator seeded with a value of its own in every cell.
SSeed_OwnSeed(l, api, sd, by) ==
    [op |-> "seed", line |-> l, api |-> api, seed |-> l, by |-> by, uses |-> {}]
SSeed(l, api, sd, by) ==
    [op |-> "seed", line |-> l, api |-> api, seed |-> sd, by |-> by, uses |-> {}]
SGen(l, fn, shapes, u, mean) ==
    [op |-> "gen", line |-> l, fn |-> fn, defs |-> shapes, uses |-> u, mean |-> mean]
\* X, y = data.x, data.y inside the branch of the Linear task.
SUnpack_LinearOnly(l, src, shapes) ==
    [when |-> "Linear", op |-> "unpack", line |-> l, src |-> src, defs |-> shapes,
     uses |-> {src}]
SUnpack(l, src, shapes) ==
    [op |-> "unpack", line |-> l, src |-> src, defs |-> shapes, uses |-> {src}]
SBeta(l, how, u) == [op |-> "beta", line |-> l, how |-> how, uses |-> u]
SAugment(l) == [op |-> "augment", line |-> l, uses |-> {"X", "n"}]
SDefLoss(l, name, reads, plen) ==
    [op |-> "defloss", line |-> l, name |-> name, reads |-> reads, plen |-> plen, uses |-> {}]
\* ScopeSolver(p, ...) whatever the loss consumes.
SConstruct_DimP(l, dim, lo, hi, grp, pre, u) ==
    [op |-> "construct", line |-> l, dim |-> "p", lo |-> lo, hi |-> hi,
     group |-> grp, preselect |-> pre, uses |-> u]
SConstruct(l, dim, lo, hi, grp, pre, u) ==
    [op |-> "construct", line |-> l, dim |-> dim, lo |-> lo, hi |-> hi,
     group |-> grp, preselect |-> pre, uses |-> u]
\* solver.solve(loss) with jit left at its default.
SSolve_DefaultJit(l, lname, jit, bind) ==
    [op |-> "solve", line |-> l, loss |-> lname, jit |-> FALSE, bind |-> bind,
     uses |-> {"solver", lname}]
SSolve(l, lname, jit, bind) ==
    [op |-> "solve", line |-> l, loss |-> lname, jit |-> jit, bind |-> bind,
     uses |-> {"solver", lname}]
SSlice(l, src, head, tail) ==
    [op |-> "slice", line |-> l, src |-> src, head |-> head, tail |-> tail, uses |-> {src}]
SRead(l, attr) == [op |-> "read", line |-> l, attr |-> attr, uses |-> {"solver"}]
SPrint(l, u) == [op |-> "print", line |-> l, uses |-> u]
SFit(l, est, shapes, u) ==
    [op |-> "fit", line |-> l, est |-> est, defs |-> shapes, uses |-> u]
SCoef(l, signs) ==
    [op |-> "coef", line |-> l, signs |-> signs,
     uses |-> {"real_coef", "true_support_set", "s", "rng"}]
SSetting(l) == [op |-> "setting", line |-> l, uses |-> {}]
SCall(l, rep) == [op |-> "call", line |-> l, rep |-> rep, uses |-> {"n", "p", "s"}]
\* The row appended inside the branch of the Linear task only.
SRecord_LinearOnly(l, model, u) ==
    [when |-> "Linear", op |-> "record", line |-> l, model |-> model, uses |-> u]
SRecord(l, model, u) == [op |-> "record", line |-> l, model |-> model, uses |-> u]
SAggregate(l) == [op |-> "aggregate", line |-> l, uses |-> {}]
SLoop(l, var, exit) == [op |-> "loop", line |-> l, var |-> var, exit |-> exit, uses |-> {}]
SEnd(l, var, head) == [op |-> "end", line |-> l, var |-> var, head |-> head, uses |-> {}]
\* A statement of one branch of the if/elif chain on task.
Br(task, stmt) == [when |-> task] @@ stmt

(***************************************************************************)
(* linear-regression.ipynb, first notebook of the file: linear regression  *)
(* without and with an intercept.                                          *)
(***************************************************************************)
ProgLinear ==
    << SDims(91, ("n" :> 150 @@ "p" :> 30)),
       SSeed(92, "default_rng", 0, ""),
       SGen(93, "rng.normal", ("X" :> <<"n", "p">>), {"n", "p", "rng"}, 0),
       SBeta(94, "first3", {"p"}),
       SGen(96, "rng.normal", ("y" :> <<"n", "1">>), {"X", "beta", "n", "rng"}, 0),
       SDefLoss(116, "ols_loss", {"X", "y"}, "cols(X)"),
       SConstruct(119, "p", "1", "9", FALSE, {}, {"p", "n"}),
       SSolve(120, "ols_loss", TRUE, "params_scope"),
       SFit(122, "LassoCV", ("params_lasso" :> <<"cols(X)", "1">>), {"X", "y"}),
       SPrint(151, {"params_scope", "params_lasso", "beta"}),
       SDims(178, ("n" :> 150 @@ "p" :> 30)),
       SSeed(179, "default_rng", 0, ""),
       SGen(180, "rng.normal", ("X" :> <<"n", "p">>), {"n", "p", "rng"}, 0),
       SBeta(181, "first3", {"p"}),
       SGen(183, "rng.normal", ("y" :> <<"n", "1">>), {"X", "beta", "n", "rng"}, 1),
       SFit(201, "LassoCV",
            ("params_lasso" :> <<"cols(X)", "1">> @@ "intercept_lasso" :> <<"1", "1">>),
            {"X", "y"}),
       SAugment(206),
       SConstruct(207, "p+1", "1", "10", FALSE, {0}, {"p", "n"}),
       SSolve(208, "ols_loss", TRUE, "scope_estimate"),
       SSlice(209, "scope_estimate", "intercept_scope", "params_scope"),
       SPrint(239, {"params_scope", "params_lasso", "beta"}),
       SPrint(267, {"intercept_scope", "intercept_lasso"}) >>

\* ProgMultinomial with the cell that prints solver.params run before the cell
\* that calls solve.
ProgMultinomial_ReadBeforeSolve ==
    << SSeed(419, "np.random.seed", 3, ""),
       SDims(470, ("n" :> 500 @@ "p" :> 20 @@ "k" :> 5 @@ "m" :> 3)),
       SGen(475, "make_multivariate_glm_data", ("data" :> <<"n", "p">>),
            {"n", "p", "k", "m"}, 0),
       SUnpack(477, "data", ("X" :> <<"n", "p">> @@ "y" :> <<"n", "m">>)),
       SDefLoss(501, "multinomial_regression_loss", {"X", "y", "p", "m"}, "p*m"),
       SConstruct(531, "p*m", "k", "k", TRUE, {}, {"p", "m", "k"}),
       SRead(577, "params"),
       SSolve(532, "multinomial_regression_loss", TRUE, "params") >>

\* ProgMultinomial with the number of predictors p passed as the sparsity level.
ProgMultinomial_SparsityP ==
    << SSeed(419, "np.random.seed", 3, ""),
       SDims(470, ("n" :> 500 @@ "p" :> 20 @@ "k" :> 5 @@ "m" :> 3)),
       SGen(475, "make_multivariate_glm_data", ("data" :> <<"n", "p">>),
            {"n", "p", "k", "m"}, 0),
       SUnpack(477, "data", ("X" :> <<"n", "p">> @@ "y" :> <<"n", "m">>)),
       SDefLoss(501, "multinomial_regression_loss", {"X", "y", "p", "m"}, "p*m"),
       SConstruct(531, "p*m", "p", "p", TRUE, {}, {"p", "m", "k"}),
       SSolve(532, "multinomial_regression_loss", TRUE, "params"),
       SRead(577, "params") >>

(***************************************************************************)
(* linear-regression.ipynb, second notebook of the file: multinomial       *)
(* logistic regression.                                                    *)
(***************************************************************************)
ProgMultinomial ==
    << SSeed(419, "np.random.seed", 3, ""),
       SDims(470, ("n" :> 500 @@ "p" :> 20 @@ "k" :> 5 @@ "m" :> 3)),
       SGen(475, "make_multivariate_glm_data", ("data" :> <<"n", "p">>),
            {"n", "p", "k", "m"}, 0),
       SUnpack(477, "data", ("X" :> <<"n", "p">> @@ "y" :> <<"n", "m">>)),
       SPrint(480, {"data"}),
       SDefLoss(501, "multinomial_regression_loss", {"X", "y", "p", "m"}, "p*m"),
       SConstruct(531, "p*m", "k", "k", TRUE, {}, {"p", "m", "k"}),
       SSolve(532, "multinomial_regression_loss", TRUE, "params"),
       SRead(577, "params"),
       SPrint(612, {"data"}),
       SRead(613, "params"),
       SPrint(674, {"data"}),
       SRead(675, "params") >>

\* ProgCompeting with the objective defined in the first cell, before any data.
ProgCompeting_LossBeforeData ==
    << SDefLoss(190, "competing_risk_objective", {"x", "y", "delta", "n"}, "cols(x)"),
       SSeed(143, "np.random.seed", 123, ""),
       SDims(144, ("n" :> 200 @@ "p" :> 10 @@ "k" :> 2)),
       SBeta(145, "linspace", {"p", "k"}),
       SGen(147, "make_data",
            ("x" :> <<"n", "p">> @@ "y" :> <<"n", "2">> @@ "delta" :> <<"n", "2">>),
            {"n", "beta"}, 0),
       SConstruct(199, "p", "k", "k", FALSE, {}, {"p", "k"}),
       SSolve(200, "competing_risk_objective", TRUE, ""),
       SRead(201, "get_result") >>

(***************************************************************************)
(* competing-risk-model.ipynb                                              *)
(***************************************************************************)
ProgCompeting ==
    << SSeed(143, "np.random.seed", 123, ""),
       SDims(144, ("n" :> 200 @@ "p" :> 10 @@ "k" :> 2)),
       SBeta(145, "linspace", {"p", "k"}),
       SGen(147, "make_data",
            ("x" :> <<"n", "p">> @@ "y" :> <<"n", "2">> @@ "delta" :> <<"n", "2">>),
            {"n", "beta"}, 0),
       SPrint(149, {"y", "delta"}),
       SDefLoss(190, "competing_risk_objective", {"x", "y", "delta", "n"}, "cols(x)"),
       SConstruct(199, "p", "k", "k", FALSE, {}, {"p", "k"}),
       SSolve(200, "competing_risk_objective", TRUE, ""),
       SRead(201, "get_result"),
       SPrint(202, {"beta", "competing_risk_objective"}) >>

(***************************************************************************)
(* multivariate-failure-time-model.ipynb                                   *)
(***************************************************************************)
ProgMultivariate ==
    << SSeed(127, "np.random.seed", 1234, ""),
       SDims(128, ("n" :> 100 @@ "p" :> 10 @@ "k" :> 2)),
       SBeta(129, "linspace", {"p", "k"}),
       SGen(131, "np.random.multivariate_normal", ("x" :> <<"n", "p">>), {"n", "p"}, 0),
       SGen(133, "np.exp", ("lambda1" :> <<"n", "1">> @@ "lambda2" :> <<"n", "1">>),
            {"x", "beta"}, 0),
       SGen(136, "make_Clayton2_data", ("y" :> <<"n", "2">> @@ "delta" :> <<"n", "2">>),
            {"n", "lambda1", "lambda2"}, 0),
       SPrint(139, {"y", "delta"}),
       SDefLoss(180, "multivariate_failure_objective", {"x", "y", "delta", "n"}, "cols(x)"),
       SConstruct(190, "p", "k", "k", FALSE, {}, {"p", "k"}),
       SSolve(191, "multivariate_failure_objective", TRUE, ""),
       SRead(193, "get_result"),
       SPrint(194, {"beta", "multivariate_failure_objective"}) >>

(***************************************************************************)
(* abess_compare.ipynb: the settings loop and, inlined at its call, the    *)
(* body of test_time.  The statements of the three branches of the         *)
(* if/elif chain on task carry the task they belong to.                    *)
(***************************************************************************)
Settings == << <<500, 1000, 10>>, <<2500, 5000, 50>>, <<5000, 10000, 100>> >>
Tasks == << "Linear", "Non-Neg", "Logistic" >>
Rep == 10

ProgBenchmark ==
    << SLoop(204, "setting", 33),
       SSetting(205),
       SCall(206, Rep),
       SLoop(87, "rep", 31),
       SSeed(88, "default_rng", 0, "rep"),
       SGen(89, "rng.choice", ("true_support_set" :> <<"s", "1">>), {"p", "s", "rng"}, 0),
       SGen(90, "np.zeros", ("real_coef" :> <<"p", "1">>), {"p"}, 0),
       SLoop(91, "task", 30),
       Br("Linear", SCoef(93, {1, -1})),
       Br("Linear", SGen(94, "make_glm_data", ("data" :> <<"n", "p">>),
                         {"n", "p", "s", "real_coef"}, 0)),
       Br("Linear", SGen(95, "LinearRegression", ("model" :> <<"s", "1">>), {"s"}, 0)),
       Br("Linear", SDefLoss(96, "objective", {"X", "y"}, "cols(X)")),
       Br("Linear", SConstruct(99, "p", "s", "s", FALSE, {}, {"p", "s"})),
       Br("Non-Neg", SCoef(101, {1})),
       Br("Non-Neg", SGen(102, "make_glm_data", ("data" :> <<"n", "p">>),
                          {"n", "p", "s", "real_coef"}, 0)),
       Br("Non-Neg", SGen(103, "LinearRegression", ("model" :> <<"s", "1">>), {"s"}, 0)),
       Br("Non-Neg", SDefLoss(104, "objective", {"X", "y"}, "cols(X)")),
       Br("Non-Neg", SConstruct(107, "p", "s", "s", FALSE, {}, {"p", "s"})),
       Br("Logistic", SCoef(109, {1, -1})),
       Br("Logistic", SGen(110, "make_glm_data", ("data" :> <<"n", "p">>),
                           {"n", "p", "s", "real_coef"}, 0)),
       Br("Logistic", SGen(111, "LogisticRegression", ("model" :> <<"s", "1">>), {"s"}, 0)),
       Br("Logistic", SDefLoss(112, "objective", {"X", "y"}, "cols(X)")),
       Br("Logistic", SConstruct(115, "p", "s", "s", FALSE, {}, {"p", "s"})),
       SUnpack(117, "data", ("X" :> <<"n", "p">> @@ "y" :> <<"n", "1">>)),
       SFit(121, "model", ("model.coef_" :> <<"cols(X)", "1">>), {"model", "X", "y"}),
       SRecord(123, "abess", {"model.coef_", "true_support_set", "s"}),
       SSolve(129, "objective", TRUE, "params"),
       SRecord(131, "skscope", {"params", "data", "s"}),
       SEnd(91, "task", 8),
       SEnd(87, "rep", 4),
       SAggregate(135),
       SEnd(204, "setting", 1) >>

Notebooks == {"linear", "multinomial", "competing", "multivariate", "benchmark"}

Prog(b) ==
    CASE b = "linear" -> ProgLinear
      [] b = "multinomial" -> ProgMultinomial
      [] b = "competing" -> ProgCompeting
      [] b = "multivariate" -> ProgMultivariate
      [] b = "benchmark" -> ProgBenchmark

(***************************************************************************)
(* The Python environment.                                                 *)
(***************************************************************************)
IntNames == {"n", "p", "k", "m", "s", "rep"}
ArrNames ==
    {"X", "y", "x", "delta", "data", "lambda1", "lambda2", "params", "params_scope",
     "params_lasso", "intercept_lasso", "scope_estimate", "intercept_scope",
     "true_support_set", "real_coef", "model", "model.coef_"}
\* The names of the simulated samples, as opposed to estimates and models.
DataNames == {"X", "y", "x", "delta", "data"}
RandomFns ==
    {"rng.normal", "rng.choice", "np.random.multivariate_normal", "make_data",
     "make_Clayton2_data", "make_multivariate_glm_data", "make_glm_data"}

Undef ==
    [def |-> FALSE, rows |-> 0, cols |-> 0, gen |-> 0, ver |-> 0, line |-> 0,
     from |-> 0, nnz |-> 0, aug |-> FALSE, seed |-> -1, pos |-> 0, mean |-> 0,
     iter |-> [setting |-> -1, rep |-> -1, task |-> -1], layout |-> <<>>, off |-> 0]
NoBeta == [def |-> FALSE, len |-> 0, supp |-> {}, val |-> <<>>, gen |-> 0, line |-> 0]
NoLoss ==
    [def |-> FALSE, name |-> "", defClk |-> 0, line |-> 0, reads |-> {}, plen |-> "",
     dataAtDef |-> {}]
NoSolver ==
    [def |-> FALSE, id |-> 0, line |-> 0, dim |-> 0, sparsity |-> {}, group |-> FALSE,
     preselect |-> {}, solves |-> 0, nnz |-> 0]

\* Whether a name is bound when a statement reads it.
Bound(name) ==
    IF name \in ArrNames THEN env[name].def
    ELSE IF name \in IntNames THEN ints[name] # -1
    ELSE IF name = "beta" THEN beta.def
    ELSE IF name = "rng" THEN rng.seed # -1 /\ rng.api = "default_rng"
    ELSE IF name = "solver" THEN solver.def
    ELSE loss.def /\ loss.name = name

AllBound(names) == \A x \in names : Bound(x)

\* The value of a shape or argument expression of the notebooks.
Eval(e) ==
    CASE e \in IntNames -> ints[e]
      [] e = "1" -> 1
      [] e = "2" -> 2
      [] e = "9" -> 9
      [] e = "10" -> 10
      [] e = "p+1" -> ints["p"] + 1
      [] e = "p*m" -> ints["p"] * ints["m"]
      [] e = "cols(X)" -> env["X"].cols
      [] e = "cols(x)" -> env["x"].cols

Stmt == Prog(nb)[pc]
Running == err = "none" /\ pc \in 1..Len(Prog(nb))
\* Whether the statement at pc is in the branch taken for the current task.
Taken(s) == ("when" \in DOMAIN s) => (s.when = Tasks[loops.task + 1])
At(o) == Running /\ Stmt.op = o /\ Taken(Stmt)

\* A read of an unbound name raises NameError and the notebook stops.
Raise(s) ==
    /\ err' = "NameError"
    /\ last' = [op |-> "raise", line |-> s.line]
    /\ UNCHANGED <<nb, pc, clk, first, ints, rng, env, beta, loss, solver, retired, res, loops>>

\* The statement at pc has run; kind says which of the four steps of an example
\* it was, if any.
Tick(kind) ==
    /\ pc' = pc + 1
    /\ clk' = clk + 1
    /\ first' = IF kind # "" /\ first[kind] = 0 THEN [first EXCEPT ![kind] = clk + 1]
                ELSE first
    /\ UNCHANGED <<nb, err>>

(***************************************************************************)
(* ScopeSolver.solve, as far as the notebooks rely on it: it returns a     *)
(* parameter vector of the solver's dimension whose number of non-zero     *)
(* entries (of non-zero groups, when a group structure is given) is at     *)
(* most the largest sparsity level the solver was constructed with.        *)
(***************************************************************************)
SolveOutcomes(sv) == 0..Max(sv.sparsity)

\* The variables of the specifications that are not the one being run.
IdleNb ==
    /\ nb = "none" /\ pc = 0 /\ clk = 0 /\ ints = <<>> /\ rng = <<>> /\ env = <<>>
    /\ beta = <<>> /\ loss = <<>> /\ solver = <<>> /\ retired = {} /\ res = <<>>
    /\ loops = <<>> /\ last = <<>> /\ first = <<>> /\ err = "none"
IdleSim == sim = [fn |-> "none", pc |-> "idle"] /\ subj = <<>> /\ obj = <<>>
IdleBeta == bb = [pc |-> "idle"]
IdleRss == rs = [pc |-> "idle"]
IdleGrp == gr = [pc |-> "idle"]
IdleCoef == cf = [pc |-> "idle"]
IdleTwin == tw = [pc |-> "idle"]

Init ==
    /\ nb \in Notebooks
    /\ pc = 1
    /\ clk = 0
    /\ ints = [x \in IntNames |-> -1]
    /\ rng = [api |-> "", seed |-> -1, pos |-> 0]
    /\ env = [x \in ArrNames |-> Undef]
    /\ beta = NoBeta
    /\ loss = NoLoss
    /\ solver = NoSolver
    /\ retired = {}
    /\ res = <<>>
    /\ loops = [setting |-> 0, rep |-> 0, task |-> 0]
    /\ last = [op |-> "start", line |-> 0]
    /\ first = [data |-> 0, loss |-> 0, solve |-> 0, report |-> 0]
    /\ err = "none"
    /\ IdleSim /\ IdleBeta /\ IdleRss /\ IdleGrp /\ IdleCoef /\ IdleTwin

\* n, p = 150, 30 and the like.
DoDims ==
    /\ At("dims")
    /\ ints' = [x \in IntNames |-> IF x \in DOMAIN Stmt.vals THEN Stmt.vals[x] ELSE ints[x]]
    /\ last' = [op |-> "dims", line |-> Stmt.line]
    /\ Tick("")
    /\ UNCHANGED <<rng, env, beta, loss, solver, retired, res, loops>>
    /\ UNCHANGED notNb

\* np.random.seed(v), rng = np.random.default_rng(v).
DoSeed ==
    /\ At("seed")
    /\ rng' = [api |-> Stmt.api,
               seed |-> IF Stmt.by = "" THEN Stmt.seed ELSE loops[Stmt.by],
               pos |-> 0]
    /\ last' = [op |-> "seed", line |-> Stmt.line]
    /\ Tick("")
    /\ UNCHANGED <<ints, env, beta, loss, solver, retired, res, loops>>
    /\ UNCHANGED notNb

\* The array a statement binds to a name: its shape, when it was bound (gen) and in
\* which iteration of the loops (iter), the generation its content goes back to
\* (ver), and the generator state and location parameter it was drawn with.
\* layout lists, for an array put together from others, where each of its
\* columns comes from (-1: a column of ones, j: column j of the array as
\* generated); off is the position in its source a slice starts at.
NewArr(shape, line, ver, mean) ==
    [def |-> TRUE, rows |-> Eval(shape[1]), cols |-> Eval(shape[2]), gen |-> clk + 1,
     ver |-> ver, line |-> line, from |-> 0, nnz |-> 0, aug |-> FALSE,
     seed |-> rng.seed, pos |-> rng.pos, mean |-> mean, iter |-> loops,
     layout |-> <<>>, off |-> 0]

\* A call that simulates or allocates data and binds the result.
DoGen ==
    /\ At("gen")
    /\ IF AllBound(Stmt.uses)
       THEN /\ env' = [x \in ArrNames |->
                          IF x \in DOMAIN Stmt.defs
                          THEN NewArr(Stmt.defs[x], Stmt.line, clk + 1, Stmt.mean)
                          ELSE env[x]]
            /\ rng' = IF Stmt.fn \in RandomFns THEN [rng EXCEPT !.pos = @ + 1] ELSE rng
            /\ last' = [op |-> "gen", line |-> Stmt.line, defs |-> DOMAIN Stmt.defs,
                        prev |-> [x \in DOMAIN Stmt.defs |-> env[x]]]
            /\ Tick(IF DOMAIN Stmt.defs \cap DataNames # {} THEN "data" ELSE "")
            /\ UNCHANGED <<ints, beta, loss, solver, retired, res, loops>>
       ELSE Raise(Stmt)
    /\ UNCHANGED notNb

\* beta = np.zeros(p) followed by the assignment of its non-zero entries.
BetaSupp(how) == IF how = "first3" THEN {0, 1, 2} ELSE LinspaceInt(ints["p"] - 1, ints["k"])
\* beta[1:4] = [1, 2, 3] in the place of beta[:3] = [1, 2, 3].
BetaVal_Shifted(how, i) ==
    IF how = "first3" THEN (IF i \in 1..3 THEN i ELSE 0)
    ELSE (IF i \in BetaSupp(how) THEN 1 ELSE 0)

BetaVal(how, i) ==
    IF how = "first3" THEN (IF i < 3 THEN i + 1 ELSE 0)
    ELSE (IF i \in BetaSupp(how) THEN 1 ELSE 0)

DoBeta ==
    /\ At("beta")
    /\ IF AllBound(Stmt.uses)
       THEN /\ beta' = [def |-> TRUE, len |-> ints["p"], supp |-> BetaSupp(Stmt.how),
                        val |-> [i \in 0..(ints["p"] - 1) |-> BetaVal(Stmt.how, i)],
                        gen |-> clk + 1, line |-> Stmt.line]
            /\ last' = [op |-> "beta", line |-> Stmt.line, prev |-> beta]
            /\ Tick("")
            /\ UNCHANGED <<ints, rng, env, loss, solver, retired, res, loops>>
       ELSE Raise(Stmt)
    /\ UNCHANGED notNb

\* X = data.x; y = data.y
DoUnpack ==
    /\ At("unpack")
    /\ IF AllBound(Stmt.uses)
       THEN /\ env' = [x \in ArrNames |->
                          IF x \in DOMAIN Stmt.defs
                          THEN [NewArr(Stmt.defs[x], Stmt.line, env[Stmt.src].ver, 0)
                                  EXCEPT !.seed = env[Stmt.src].seed,
                                         !.pos = env[Stmt.src].pos]
                          ELSE env[x]]
            /\ last' = [op |-> "unpack", line |-> Stmt.line, defs |-> DOMAIN Stmt.defs]
            /\ Tick("")
            /\ UNCHANGED <<ints, rng, beta, loss, solver, retired, res, loops>>
       ELSE Raise(Stmt)
    /\ UNCHANGED notNb

\* np.hstack((b, a)): the columns of the second argument first.
Hstack_SecondFirst(a, b) == b \o a

\* np.hstack((a, b)) on the columns of two arrays with the same number of rows.
Hstack(a, b) == a \o b

\* The columns of np.ones((n, 1)), and of an array as it was generated.
OnesColumn == <<-1>>
ColumnsOf(a) == IF a.layout = <<>> THEN [j \in 1..a.cols |-> j - 1] ELSE a.layout

\* X = np.hstack((np.ones((n, 1)), X))
DoAugment ==
    /\ At("augment")
    /\ IF AllBound(Stmt.uses)
       THEN /\ env' = [env EXCEPT !["X"] =
                         [@ EXCEPT !.layout = Hstack(OnesColumn, ColumnsOf(env["X"])),
                                   !.cols = Len(Hstack(OnesColumn, ColumnsOf(env["X"]))),
                                   !.aug = TRUE, !.gen = clk + 1, !.line = Stmt.line]]
            /\ last' = [op |-> "augment", line |-> Stmt.line]
            /\ Tick("")
            /\ UNCHANGED <<ints, rng, beta, loss, solver, retired, res, loops>>
       ELSE Raise(Stmt)
    /\ UNCHANGED notNb

\* def loss(params): the body is not run, its free names are read at each call.
DoDefLoss ==
    /\ At("defloss")
    /\ loss' = [def |-> TRUE, name |-> Stmt.name, defClk |-> clk + 1, line |-> Stmt.line,
                reads |-> Stmt.reads, plen |-> Stmt.plen,
                dataAtDef |-> {x \in DataNames : env[x].def}]
    /\ last' = [op |-> "defloss", line |-> Stmt.line]
    /\ Tick("loss")
    /\ UNCHANGED <<ints, rng, env, beta, solver, retired, res, loops>>
    /\ UNCHANGED notNb

\* solver = ScopeSolver(dimension, sparsity, ...): the object bound before is dropped.
DoConstruct ==
    /\ At("construct")
    /\ IF AllBound(Stmt.uses)
       THEN /\ solver' = [def |-> TRUE, id |-> clk + 1, line |-> Stmt.line,
                          dim |-> Eval(Stmt.dim),
                          sparsity |-> Eval(Stmt.lo)..Eval(Stmt.hi),
                          group |-> Stmt.group, preselect |-> Stmt.preselect,
                          solves |-> 0, nnz |-> 0]
            /\ retired' = IF solver.def THEN retired \cup {solver.solves} ELSE retired
            /\ last' = [op |-> "construct", line |-> Stmt.line]
            /\ Tick("")
            /\ UNCHANGED <<ints, rng, env, beta, loss, res, loops>>
       ELSE Raise(Stmt)
    /\ UNCHANGED notNb

\* [bind =] solver.solve(loss, jit=...): the loss is evaluated on the globals of now.
DoSolve ==
    /\ At("solve")
    /\ IF AllBound(Stmt.uses) /\ AllBound(loss.reads)
       THEN \E z \in SolveOutcomes(solver) :
            /\ solver' = [solver EXCEPT !.solves = @ + 1, !.nnz = z]
            /\ env' = IF Stmt.bind = "" THEN env
                      ELSE [env EXCEPT ![Stmt.bind] =
                              [Undef EXCEPT !.def = TRUE, !.rows = solver.dim, !.cols = 1,
                                            !.gen = clk + 1, !.ver = clk + 1,
                                            !.line = Stmt.line, !.from = solver.id,
                                            !.nnz = z, !.iter = loops]]
            /\ last' = [op |-> "solve", line |-> Stmt.line, sid |-> solver.id,
                        jit |-> Stmt.jit, loss |-> Stmt.loss, lossDef |-> loss.defClk,
                        dataAtDef |-> loss.dataAtDef, plen |-> Eval(loss.plen),
                        dim |-> solver.dim,
                        read |-> [x \in loss.reads \cap ArrNames |-> env[x]]]
            /\ Tick("solve")
            /\ UNCHANGED <<ints, rng, beta, loss, retired, res, loops>>
       ELSE Raise(Stmt)
    /\ UNCHANGED notNb

\* head = src[0]; tail = src[1:]
DoSlice ==
    /\ At("slice")
    /\ IF AllBound(Stmt.uses)
       THEN /\ env' = [env EXCEPT
                         ![Stmt.head] = [env[Stmt.src] EXCEPT !.rows = 1, !.gen = clk + 1,
                                                              !.line = Stmt.line, !.off = 0],
                         ![Stmt.tail] = [env[Stmt.src] EXCEPT !.rows = @ - 1, !.gen = clk + 1,
                                                              !.line = Stmt.line, !.off = 1]]
            /\ last' = [op |-> "slice", line |-> Stmt.line]
            /\ Tick("")
            /\ UNCHANGED <<ints, rng, beta, loss, solver, retired, res, loops>>
       ELSE Raise(Stmt)
    /\ UNCHANGED notNb

\* print(solver.params ...), print(solver.get_result() ...)
DoRead ==
    /\ At("read")
    /\ IF AllBound(Stmt.uses)
       THEN /\ last' = [op |-> "read", line |-> Stmt.line, attr |-> Stmt.attr,
                        sid |-> solver.id, solves |-> solver.solves, nnz |-> solver.nnz]
            /\ Tick("report")
            /\ UNCHANGED <<ints, rng, env, beta, loss, solver, retired, res, loops>>
       ELSE Raise(Stmt)
    /\ UNCHANGED notNb

\* The solver objects whose results a statement reads through the names it uses.
Sources(names) == {env[x].from : x \in {u \in names \cap ArrNames : env[u].from # 0}}

\* The values a statement shows that came out of a solve call.
Results(names) == [x \in {u \in names \cap ArrNames : env[u].from # 0} |-> env[x]]

\* print(...), plots and tests of values already bound.
DoPrint ==
    /\ At("print")
    /\ IF AllBound(Stmt.uses)
       THEN /\ last' = [op |-> "print", line |-> Stmt.line, uses |-> Stmt.uses,
                        from |-> Sources(Stmt.uses), shown |-> Results(Stmt.uses)]
            /\ Tick(IF Sources(Stmt.uses) # {} THEN "report" ELSE "")
            /\ UNCHANGED <<ints, rng, env, beta, loss, solver, retired, res, loops>>
       ELSE Raise(Stmt)
    /\ UNCHANGED notNb

\* LassoCV(...).fit(X, y), model.fit(X, y): binds the fitted coefficients.
DoFit ==
    /\ At("fit")
    /\ IF AllBound(Stmt.uses)
       THEN /\ env' = [x \in ArrNames |->
                          IF x \in DOMAIN Stmt.defs
                          THEN NewArr(Stmt.defs[x], Stmt.line, env["X"].ver, 0)
                          ELSE env[x]]
            /\ last' = [op |-> "fit", line |-> Stmt.line, est |-> Stmt.est,
                        X |-> env["X"], y |-> env["y"]]
            /\ Tick("")
            /\ UNCHANGED <<ints, rng, beta, loss, solver, retired, res, loops>>
       ELSE Raise(Stmt)
    /\ UNCHANGED notNb

\* real_coef[true_support_set] = rng.choice(np.arange(1, 4), size=s) * rng.choice(signs, size=s)
DoCoef ==
    /\ At("coef")
    /\ IF AllBound(Stmt.uses)
       THEN /\ env' = [env EXCEPT !["real_coef"] = [@ EXCEPT !.nnz = ints["s"],
                                                             !.ver = clk + 1]]
            /\ rng' = [rng EXCEPT !.pos = @ + 2]
            /\ last' = [op |-> "coef", line |-> Stmt.line, signs |-> Stmt.signs]
            /\ Tick("")
            /\ UNCHANGED <<ints, beta, loss, solver, retired, res, loops>>
       ELSE Raise(Stmt)
    /\ UNCHANGED notNb

\* n, p, s = setting
DoSetting ==
    /\ At("setting")
    /\ LET t == Settings[loops.setting + 1]
       IN ints' = [ints EXCEPT !["n"] = t[1], !["p"] = t[2], !["s"] = t[3]]
    /\ last' = [op |-> "setting", line |-> Stmt.line]
    /\ Tick("")
    /\ UNCHANGED <<rng, env, beta, loss, solver, retired, res, loops>>
    /\ UNCHANGED notNb

\* res = test_time(n=n, p=p, s=s, rep=10): entry into test_time, whose locals start
\* unbound, up to the creation of the empty result table.
DoCall ==
    /\ At("call")
    /\ ints' = [ints EXCEPT !["rep"] = Stmt.rep]
    /\ env' = [x \in ArrNames |-> Undef]
    /\ rng' = [api |-> "", seed |-> -1, pos |-> 0]
    /\ loss' = NoLoss
    /\ solver' = NoSolver
    /\ retired' = IF solver.def THEN retired \cup {solver.solves} ELSE retired
    /\ res' = <<>>
    /\ last' = [op |-> "call", line |-> Stmt.line,
                args |-> <<ints["n"], ints["p"], ints["s"]>>]
    /\ Tick("")
    /\ UNCHANGED <<beta, loops>>
    /\ UNCHANGED notNb

\* res.loc[len(res)] = [task, model, accuracy, time]
DoRecord ==
    /\ At("record")
    /\ IF AllBound(Stmt.uses)
       THEN /\ res' = Append(res, <<loops.rep, Tasks[loops.task + 1], Stmt.model>>)
            /\ last' = [op |-> "record", line |-> Stmt.line, model |-> Stmt.model,
                        uses |-> Stmt.uses, from |-> Sources(Stmt.uses),
                        shown |-> Results(Stmt.uses)]
            /\ Tick(IF Sources(Stmt.uses) # {} THEN "report" ELSE "")
            /\ UNCHANGED <<ints, rng, env, beta, loss, solver, retired, loops>>
       ELSE Raise(Stmt)
    /\ UNCHANGED notNb

\* The groupby/mean/std of the table, print(res_all) and the return.
DoAggregate ==
    /\ At("aggregate")
    /\ last' = [op |-> "aggregate", line |-> Stmt.line, rows |-> Len(res)]
    /\ Tick("")
    /\ UNCHANGED <<ints, rng, env, beta, loss, solver, retired, res, loops>>
    /\ UNCHANGED notNb

LoopCount(var) ==
    CASE var = "setting" -> Len(Settings)
      [] var = "rep" -> ints["rep"]
      [] var = "task" -> Len(Tasks)

\* The head of a for loop: enter the body, or leave the loop when it is exhausted.
DoLoop ==
    /\ At("loop")
    /\ IF loops[Stmt.var] < LoopCount(Stmt.var)
       THEN pc' = pc + 1 /\ loops' = loops
       ELSE pc' = Stmt.exit /\ loops' = [loops EXCEPT ![Stmt.var] = 0]
    /\ clk' = clk + 1
    /\ last' = [op |-> "loop", line |-> Stmt.line]
    /\ UNCHANGED <<nb, err, first, ints, rng, env, beta, loss, solver, retired, res>>
    /\ UNCHANGED notNb

\* The end of a loop body: on to the next element.
DoEnd ==
    /\ At("end")
    /\ pc' = Stmt.head
    /\ loops' = [loops EXCEPT ![Stmt.var] = @ + 1]
    /\ clk' = clk + 1
    /\ last' = [op |-> "end", line |-> Stmt.line]
    /\ UNCHANGED <<nb, err, first, ints, rng, env, beta, loss, solver, retired, res>>
    /\ UNCHANGED notNb

\* A statement of a branch of the if/elif chain that is not taken.
DoSkip ==
    /\ Running
    /\ ~Taken(Stmt)
    /\ pc' = pc + 1
    /\ UNCHANGED <<nb, clk, err, first, ints, rng, env, beta, loss, solver, retired, res,
                   loops, last>>
    /\ UNCHANGED notNb

Next ==
    \/ DoDims \/ DoSeed \/ DoGen \/ DoBeta \/ DoUnpack \/ DoAugment \/ DoDefLoss
    \/ DoConstruct \/ DoSolve \/ DoSlice \/ DoRead \/ DoPrint \/ DoFit
    \/ DoCoef \/ DoSetting \/ DoCall \/ DoRecord \/ DoAggregate
    \/ DoLoop \/ DoEnd \/ DoSkip

Spec == Init /\ [][Next]_vars

Finished == err = "none" /\ pc = Len(Prog(nb)) + 1

(***************************************************************************)
(* Claims about the run of a notebook (specification Spec).                *)
(***************************************************************************)

\* C1: in every notebook data is generated first, then a loss is defined, then
\* solve is called, then results are reported; every solve call finds the data
\* its loss reads already generated and its loss already defined (the loss
\* itself defined when data existed), every reported result was bound by an
\* earlier solve call, and no statement reads a name that is not yet bound.
C1_StepsInOrder ==
    /\ err = "none"
    /\ (first.loss # 0 => (0 < first.data /\ first.data < first.loss))
    /\ (first.solve # 0 => (0 < first.loss /\ first.loss < first.solve))
    /\ (first.report # 0 => (0 < first.solve /\ first.solve < first.report))
    /\ (Finished => first.report # 0)
    /\ (last.op = "solve" =>
            /\ \A x \in DOMAIN last.read : last.read[x].def /\ last.read[x].gen < clk
            /\ 0 < last.lossDef /\ last.lossDef < clk
            /\ last.dataAtDef # {})
    /\ (last.op = "read" => (last.solves >= 1 /\ last.sid < clk))
    /\ (last.op \in {"print", "record"} =>
            \A x \in DOMAIN last.shown : last.shown[x].def /\ last.shown[x].gen < clk)

\* The intercept case of the linear regression notebook has just called solve: its
\* loss was defined in the no-intercept case, its data generated after that.
C1_Witness ==
    /\ nb = "linear" /\ last.op = "solve" /\ last.line = 208
    /\ last.read["X"].gen > last.lossDef

\* C2: a solver object is solved at most once while it is bound, exactly once by
\* the time it is dropped or the notebook ends, and every read of solver.params or
\* solver.get_result(), and every value returned by solve, belongs to an object
\* whose solve call has returned.
C2_SolverProtocol ==
    /\ (solver.def => solver.solves <= 1)
    /\ retired \subseteq {1}
    /\ (Finished => (solver.def /\ solver.solves = 1))
    /\ (last.op = "read" => (last.sid = solver.id /\ last.solves = 1))
    /\ \A x \in ArrNames :
          (env[x].def /\ env[x].from # 0) =>
              /\ env[x].from < env[x].gen
              /\ (env[x].from = solver.id => solver.solves = 1)

\* The benchmark has dropped solved objects and has just solved the current one.
C2_Witness ==
    /\ nb = "benchmark" /\ retired = {1} /\ last.op = "solve"
    /\ loops.rep = Rep - 1 /\ loops.setting = Len(Settings) - 1

\* C3: the vector returned by solve has at most as many non-zero entries (non-zero
\* groups) as the largest sparsity level the solver was constructed with, and in
\* the multinomial example, whose groups are the rows of params.reshape((p, m)),
\* at most 5 rows hold a non-zero entry.
DocMaxVars == 5

DocSettings == { <<500, 1000, 5>>, <<2500, 5000, 25>>, <<5000, 10000, 50>> }

C5_SettingsAsDocumented == (last.op = "call") => (last.args \in DocSettings)

\* C6: in the multivariate failure time example the sample has 200 rows and 10
\* columns, 2 true coefficients are non-zero, and solve runs on those 200 rows.
DocSampleSize == 200

C6_SampleOf200 ==
    (nb = "multivariate") =>
        /\ (env["x"].def => (env["x"].rows = DocSampleSize /\ env["x"].cols = 10))
        /\ (env["y"].def => env["y"].rows = DocSampleSize)
        /\ (beta.def => Cardinality(beta.supp) = 2)
        /\ (last.op = "solve" => last.read["x"].rows = DocSampleSize)

\* C14: in the linear regression example, without and with an intercept, the
\* sample generated has n = 150 rows and p = 30 columns and the true coefficient
\* vector is (1, 2, 3, 0, ..., 0), non-zero in exactly the first three positions.
C14_LinearSample ==
    (nb = "linear") =>
        /\ (beta.def =>
               /\ beta.len = 30
               /\ beta.val = [i \in 0..29 |-> IF i = 0 THEN 1 ELSE IF i = 1 THEN 2
                                              ELSE IF i = 2 THEN 3 ELSE 0]
               /\ {i \in DOMAIN beta.val : beta.val[i] # 0} = {0, 1, 2}
               /\ beta.supp = {0, 1, 2})
        /\ ((env["X"].def /\ ~env["X"].aug) => (env["X"].rows = 150 /\ env["X"].cols = 30))
        /\ (env["y"].def => (env["y"].rows = 150 /\ env["y"].cols = 1))
        /\ (last.op = "gen" => (ints["n"] = 150 /\ ints["p"] = 30))

\* The sample of the intercept case has just been completed by its response.
C14_Witness ==
    /\ nb = "linear" /\ last.op = "gen" /\ last.line = 183
    /\ beta.line = 181 /\ env["X"].line = 180 /\ env["y"].mean = 1

\* C15: when the loops of test_time have finished the result table holds exactly
\* one row per (repetition, task, model), task in {Linear, Non-Neg, Logistic} and
\* model in {abess, skscope}: 6 * rep rows, rep rows in each (Task, Model) group;
\* and the abess row of a task is appended before its skscope row.
C15_OneRowPerRun ==
    (nb = "benchmark") =>
        /\ \A i \in 1..Len(res) :
              /\ res[i][3] = (IF i % 2 = 1 THEN "abess" ELSE "skscope")
              /\ (res[i][3] = "skscope" => res[i - 1] = <<res[i][1], res[i][2], "abess">>)
        /\ (last.op = "aggregate" =>
               /\ last.rows = 6 * ints["rep"]
               /\ Len(res) = 6 * ints["rep"]
               /\ \A r \in 0..(ints["rep"] - 1) :
                  \A t \in {"Linear", "Non-Neg", "Logistic"} :
                  \A md \in {"abess", "skscope"} :
                      Cardinality({i \in 1..Len(res) : res[i] = <<r, t, md>>}) = 1
               /\ \A t \in {"Linear", "Non-Neg", "Logistic"} :
                  \A md \in {"abess", "skscope"} :
                      Cardinality({i \in 1..Len(res) : res[i][2] = t /\ res[i][3] = md})
                          = ints["rep"])

\* The table of the last setting has been aggregated with its 60 rows.
C15_Witness ==
    /\ nb = "benchmark" /\ last.op = "aggregate" /\ last.rows = 60
    /\ loops.setting = Len(Settings) - 1

\* C16: every call of solve passes a loss function defined in the notebook as
\* its first argument, together with jit=True.
C16_SolveWithJit ==
    (last.op = "solve") =>
        /\ last.jit = TRUE
        /\ loss.def /\ last.loss = loss.name /\ last.lossDef = loss.defClk

\* The benchmark has called solve on the objective of the Logistic task.
C16_Witness ==
    /\ nb = "benchmark" /\ last.op = "solve" /\ last.jit
    /\ Tasks[loops.task + 1] = "Logistic" /\ loss.line = 112

\* C17: the intercept case of the linear regression example builds its sample
\* as the no-intercept case did: X is drawn with the same shape from the same
\* generator in the same state, beta is the same vector, and y is drawn at the
\* same position with the same shape, with noise mean 1 in the place of 0.
C17_SameSettings ==
    (nb = "linear") =>
        /\ (last.op = "gen" /\ last.line = 180 =>
               LET old == last.prev["X"]
                   new == env["X"]
               IN /\ old.def /\ old.line = 93 /\ ~old.aug
                  /\ <<new.rows, new.cols>> = <<old.rows, old.cols>>
                  /\ <<new.seed, new.pos>> = <<old.seed, old.pos>>
                  /\ new.seed = 0 /\ new.mean = old.mean)
        /\ (last.op = "beta" /\ last.line = 181 =>
               /\ last.prev.def /\ last.prev.line = 94
               /\ beta.val = last.prev.val)
        /\ (last.op = "gen" /\ last.line = 183 =>
               LET old == last.prev["y"]
                   new == env["y"]
               IN /\ old.def /\ old.line = 96
                  /\ <<new.rows, new.cols>> = <<old.rows, old.cols>>
                  /\ <<new.seed, new.pos>> = <<old.seed, old.pos>>
                  /\ old.mean = 0 /\ new.mean = 1)

\* The response of the intercept case has just been drawn, after the design
\* matrix, in the place of the response of the no-intercept case.
C17_Witness ==
    /\ nb = "linear" /\ last.op = "gen" /\ last.line = 183
    /\ last.prev["y"].line = 96 /\ env["y"].pos = 1 /\ env["X"].pos = 0

\* C19: in test_time the objective passed to solve reads the X and y unpacked
\* from the data generated in the same iteration of the task loop, although it
\* was defined before they were assigned, and model.fit of that iteration ran
\* on the same X and y.
C19_ClosureReadsCurrentData ==
    (nb = "benchmark") =>
        /\ (last.op = "fit" =>
               \A x \in {"X", "y"} :
                   last[x].ver = env["data"].ver /\ last[x].iter = loops)
        /\ (last.op = "solve" =>
               /\ env["data"].def /\ env["data"].iter = loops
               /\ \A x \in {"X", "y"} :
                     /\ last.read[x].ver = env["data"].ver
                     /\ last.read[x].iter = loops
                     /\ last.lossDef < last.read[x].gen
               /\ env["model.coef_"].ver = last.read["X"].ver
               /\ env["model.coef_"].iter = loops)

\* solve has just run in the Non-Neg task of a later repetition, on data that
\* replaced the data of the Linear task.
C19_Witness ==
    /\ nb = "benchmark" /\ last.op = "solve"
    /\ loops.task = 1 /\ loops.rep = 1
    /\ last.read["X"].ver = env["data"].ver
    /\ last.read["X"].line = 117 /\ env["data"].line = 102

\* C21: at every call of solve the dimension the solver was constructed with is
\* the length of the parameter vector the loss consumes at that moment: the
\* number of columns of X (p, and p + 1 once X has been augmented) for the
\* regression losses, p * m for the multinomial loss, p for the survival and
\* benchmark losses.
C21_DimensionIsParamLength ==
    (last.op = "solve") =>
        /\ last.dim = last.plen
        /\ (nb = "linear" /\ last.line = 120 =>
               (last.dim = ints["p"] /\ last.read["X"].cols = ints["p"] /\ ~last.read["X"].aug))
        /\ (nb = "linear" /\ last.line = 208 =>
               (last.dim = ints["p"] + 1 /\ last.read["X"].cols = ints["p"] + 1
                /\ last.read["X"].aug))
        /\ (nb = "multinomial" => last.dim = ints["p"] * ints["m"])
        /\ (nb \in {"competing", "multivariate"} =>
               (last.dim = ints["p"] /\ last.read["x"].cols = ints["p"]))
        /\ (nb = "benchmark" => (last.dim = ints["p"] /\ last.read["X"].cols = ints["p"]))

\* The intercept case has called solve with a solver of dimension 31.
C21_Witness ==
    /\ nb = "linear" /\ last.op = "solve" /\ last.line = 208
    /\ last.dim = 31 /\ last.plen = 31

\* C22: in the intercept case LassoCV.fit runs on X as generated (p columns),
\* before the column of ones is prepended; solve evaluates ols_loss on the
\* augmented X, whose column 0 is the ones and whose column j + 1 is column j
\* of X as generated, with index 0 preselected; scope_estimate[0] is read as the
\* intercept, and scope_estimate[1:], of length p, is what is compared with beta
\* position by position.
C22_InterceptCase ==
    (nb = "linear") =>
        /\ (last.op = "fit" /\ last.line = 201 =>
               (~last.X.aug /\ last.X.cols = ints["p"] /\ last.X.layout = <<>>))
        /\ (last.op = "solve" /\ last.line = 208 =>
               LET X == last.read["X"]
               IN /\ X.aug /\ X.cols = ints["p"] + 1 /\ Len(X.layout) = X.cols
                  /\ X.layout[1] = -1
                  /\ \A j \in 0..(ints["p"] - 1) : X.layout[j + 2] = j
                  /\ solver.preselect = {0}
                  /\ last.loss = "ols_loss" /\ loss.line = 116
                  /\ env["params_lasso"].gen < X.gen
                  /\ env["params_lasso"].rows = ints["p"])
        /\ (last.op = "slice" =>
               /\ env["intercept_scope"].rows = 1 /\ env["intercept_scope"].off = 0
               /\ env["X"].layout[env["intercept_scope"].off + 1] = -1
               /\ env["params_scope"].rows = beta.len
               /\ \A j \in 0..(beta.len - 1) :
                     env["X"].layout[j + env["params_scope"].off + 1] = j)
        /\ (last.op = "print" /\ last.line = 239 =>
               /\ last.shown["params_scope"].rows = beta.len
               /\ last.shown["params_scope"].off = 1)

\* The estimates of the intercept case have been compared with beta.
C22_Witness ==
    /\ nb = "linear" /\ last.op = "print" /\ last.line = 239
    /\ env["X"].aug /\ env["X"].layout[1] = -1 /\ env["X"].layout[31] = 29
    /\ last.shown["params_scope"].rows = 30

(***************************************************************************)
(* SpecBeta: the cell of competing-risk-model.ipynb that builds the true   *)
(* coefficient vector and simulates the sample, for every number of        *)
(* covariates p up to MaxP and every number k of effective ones.           *)
(***************************************************************************)
MaxP == 10
CompetingN == 200

\* n, p, k = 200, 10, 2 with p and k ranging over the bounded inputs.
BetaDims ==
    /\ bb.pc = "dims"
    /\ \E pp \in 2..MaxP : \E kk \in 2..pp :
          bb' = [pc |-> "zeros", n |-> CompetingN, p |-> pp, k |-> kk]
    /\ UNCHANGED notBeta

\* beta = np.zeros(p)
BetaZeros ==
    /\ bb.pc = "zeros"
    /\ bb' = [pc |-> "assign", n |-> bb.n, p |-> bb.p, k |-> bb.k,
              beta |-> [i \in 0..(bb.p - 1) |-> 0]]
    /\ UNCHANGED notBeta

\* beta[np.linspace(0, p - 1, k, dtype=int)] = [1 for _ in range(k)]
BetaAssign ==
    /\ bb.pc = "assign"
    /\ LET idx == LinspaceSeq(bb.p - 1, bb.k)
       IN bb' = [pc |-> "make_data", n |-> bb.n, p |-> bb.p, k |-> bb.k, idx |-> idx,
                 beta |-> [i \in 0..(bb.p - 1) |->
                             IF \E j \in 1..bb.k : idx[j] = i THEN 1 ELSE bb.beta[i]]]
    /\ UNCHANGED notBeta

\* x, y, delta = make_data(n, beta): x has n rows and len(beta) columns.
BetaMakeData ==
    /\ bb.pc = "make_data"
    /\ bb' = [pc |-> "done", n |-> bb.n, p |-> bb.p, k |-> bb.k, idx |-> bb.idx,
              beta |-> bb.beta, rows |-> bb.n, cols |-> Cardinality(DOMAIN bb.beta)]
    /\ UNCHANGED notBeta

InitBeta == bb = [pc |-> "dims"] /\ IdleNb /\ IdleSim /\ IdleRss /\ IdleGrp /\ IdleCoef /\ IdleTwin
NextBeta == BetaDims \/ BetaZeros \/ BetaAssign \/ BetaMakeData
SpecBeta == InitBeta /\ [][NextBeta]_vars

BbSupport == {i \in DOMAIN bb.beta : bb.beta[i] # 0}

\* C7: the sample has 200 rows and as many columns as beta has entries (10 in the
\* notebook); beta has exactly k non-zero entries, for every 2 <= k <= p, the
\* first and the last position among them, and no others when k = 2.
C7_BetaHasKNonZeros ==
    (bb.pc = "done") =>
        /\ bb.rows = 200 /\ bb.cols = bb.p
        /\ Cardinality(BbSupport) = bb.k
        /\ {0, bb.p - 1} \subseteq BbSupport
        /\ (bb.k = 2 => BbSupport = {0, bb.p - 1})
        /\ ((bb.p = 10 /\ bb.k = 2) => (bb.cols = 10 /\ BbSupport = {0, 9}))

\* The notebook's own case, p = 10 and k = 2, has built beta and the sample.
C7_Witness ==
    /\ bb.pc = "done" /\ bb.p = 10 /\ bb.k = 2 /\ BbSupport = {0, 9} /\ bb.rows = 200

(***************************************************************************)
(* SpecSim: the survival data simulators make_data (competing risk) and    *)
(* make_Clayton2_data (multivariate failure time).  Failure and censoring  *)
(* times are drawn from a small grid; what the functions do with them is   *)
(* modelled statement by statement.                                        *)
(***************************************************************************)
NSim == 2       \* subjects in a make_data sample
NClay == 1      \* subjects in a make_Clayton2_data sample, with make_data next to it
NMf == 2        \* subjects in a make_Clayton2_data sample, on its own
MaxT == 1       \* failure times are drawn from 0..MaxT
MaxC == 2       \* c, c1, c2: censoring times are drawn from 0..MaxC

\* np.maximum in the place of np.minimum.
Minimum_Maximum(a, b) == IF a >= b THEN a ELSE b

\* np.minimum(a, b), elementwise.
Minimum(a, b) == IF a <= b THEN a ELSE b

\* (time <= ctime) * 1
Indicator_Leq(t, c) == IF t <= c THEN 1 ELSE 0

\* (time < ctime) * 1
Indicator(t, c) == IF t < c THEN 1 ELSE 0

Vec(n, S) == [1..n -> S]

\* The simulator being run and the statement it is at.
SimAt(f, p) == sim.fn = f /\ sim.pc = p

\* make_data, up to ctime = np.random.uniform(0, c, n): the n rows of x, the
\* failure cause, the failure time and the censoring time of every subject.
MdDraw ==
    /\ SimAt("make_data", "draw")
    /\ \E case \in Vec(sim.n, {0, 1}), time \in Vec(sim.n, 0..MaxT), ctime \in Vec(sim.n, 0..MaxC) :
          subj' = [n |-> sim.n, c |-> MaxC, xrows |-> sim.n, case |-> case, T |-> time,
                   time |-> time, ctime |-> ctime]
    /\ sim' = [sim EXCEPT !.pc = "delta"]
    /\ UNCHANGED obj
    /\ UNCHANGED notSim

\* delta = (time < ctime) * 1, and the censoring rate that is printed.
MdDelta ==
    /\ SimAt("make_data", "delta")
    /\ LET d == [i \in 1..subj.n |-> Indicator(subj.time[i], subj.ctime[i])]
       IN subj' = [n |-> subj.n, c |-> subj.c, xrows |-> subj.xrows, case |-> subj.case,
                   T |-> subj.T,
                   time |-> subj.time, ctime |-> subj.ctime, delta |-> d,
                   censored |-> Cardinality({i \in 1..subj.n : d[i] = 0})]
    /\ sim' = [sim EXCEPT !.pc = "truncate"]
    /\ UNCHANGED obj
    /\ UNCHANGED notSim

\* time = np.minimum(time, ctime)
MdTruncate ==
    /\ SimAt("make_data", "truncate")
    /\ subj' = [subj EXCEPT !.time = [i \in 1..subj.n |-> Minimum(subj.time[i], subj.ctime[i])]]
    /\ sim' = [sim EXCEPT !.pc = "stack"]
    /\ UNCHANGED obj
    /\ UNCHANGED notSim

\* y = hstack(time, ctime); delta = hstack(delta, case); return (x, y, delta)
MdReturn ==
    /\ SimAt("make_data", "stack")
    /\ subj' = [n |-> subj.n, c |-> subj.c, xrows |-> subj.xrows, T |-> subj.T,
                C |-> subj.ctime,
                y |-> [i \in 1..subj.n |-> <<subj.time[i], subj.ctime[i]>>],
                delta |-> [i \in 1..subj.n |-> <<subj.delta[i], subj.case[i]>>]]
    /\ sim' = [sim EXCEPT !.pc = "done"]
    /\ UNCHANGED obj
    /\ UNCHANGED notSim

\* make_Clayton2_data, up to ctime2 = np.random.uniform(0, c2, n): the two failure
\* times and the two censoring times of every subject.
ClDraw ==
    /\ SimAt("make_Clayton2_data", "draw")
    /\ \E time1 \in Vec(sim.n, 0..MaxT), time2 \in Vec(sim.n, 0..MaxT),
          ctime1 \in Vec(sim.n, 0..MaxC), ctime2 \in Vec(sim.n, 0..MaxC) :
          subj' = [n |-> sim.n, T |-> [i \in 1..sim.n |-> <<time1[i], time2[i]>>],
                   time1 |-> time1, time2 |-> time2, ctime1 |-> ctime1, ctime2 |-> ctime2]
    /\ sim' = [sim EXCEPT !.pc = "delta"]
    /\ UNCHANGED obj
    /\ UNCHANGED notSim

\* delta1 = (time1 < ctime1) * 1; delta2 = (time2 < ctime2) * 1
ClDelta ==
    /\ SimAt("make_Clayton2_data", "delta")
    /\ subj' = [n |-> subj.n, T |-> subj.T, time1 |-> subj.time1, time2 |-> subj.time2,
                ctime1 |-> subj.ctime1, ctime2 |-> subj.ctime2,
                delta1 |-> [i \in 1..subj.n |-> Indicator(subj.time1[i], subj.ctime1[i])],
                delta2 |-> [i \in 1..subj.n |-> Indicator(subj.time2[i], subj.ctime2[i])]]
    /\ sim' = [sim EXCEPT !.pc = "truncate"]
    /\ UNCHANGED obj
    /\ UNCHANGED notSim

\* time1 = np.minimum(time1, ctime1); time2 = np.minimum(time2, ctime2)
ClTruncate ==
    /\ SimAt("make_Clayton2_data", "truncate")
    /\ subj' = [subj EXCEPT
                  !.time1 = [i \in 1..subj.n |-> Minimum(subj.time1[i], subj.ctime1[i])],
                  !.time2 = [i \in 1..subj.n |-> Minimum(subj.time2[i], subj.ctime2[i])]]
    /\ sim' = [sim EXCEPT !.pc = "stack"]
    /\ UNCHANGED obj
    /\ UNCHANGED notSim

\* y = hstack(time1, time2); delta = hstack(delta1, delta2); return (y, delta)
ClReturn ==
    /\ SimAt("make_Clayton2_data", "stack")
    /\ subj' = [n |-> subj.n, T |-> subj.T,
                C |-> [i \in 1..subj.n |-> <<subj.ctime1[i], subj.ctime2[i]>>],
                y |-> [i \in 1..subj.n |-> <<subj.time1[i], subj.time2[i]>>],
                delta |-> [i \in 1..subj.n |-> <<subj.delta1[i], subj.delta2[i]>>]]
    /\ sim' = [sim EXCEPT !.pc = "done"]
    /\ UNCHANGED obj
    /\ UNCHANGED notSim

(***************************************************************************)
(* The objectives of the two survival examples, called on the sample the   *)
(* simulator returned.  Column 0 of a numpy array is component 1 of the    *)
(* tuples of this model.  An objective value is a sum of log-sum terms and *)
(* of linear terms beta'Z_i divided by n; it is kept as the coefficient    *)
(* every subject's term enters that sum with, and the index set each       *)
(* log-sum runs over.                                                      *)
(***************************************************************************)
\* riskset[j] with only the subjects still under observation at the time of i.
InRiskset_UnderObservationOnly(j, i) == subj.y[j][1] >= subj.y[i][1]

\* riskset[j] with y[:,0] > y[i,0] in the place of y[:,0] >= y[i,0].
InRiskset_StrictlyLater(j, i) ==
    \/ subj.y[j][1] > subj.y[i][1]
    \/ /\ subj.delta[j][2] = 0
       /\ subj.delta[j][1] = 1
       /\ subj.y[j][1] <= subj.y[i][1]
       /\ subj.y[j][2] >= subj.y[i][1]

\* riskset[j] in iteration i of the loop of competing_risk_objective:
\* (y[:,0]>=y[i,0]) | ((delta[:,1]==0) & (delta[:,0]==1) & (y[:,0]<=y[i,0]) & (y[:,1]>=y[i,0]))
InRiskset(j, i) ==
    \/ subj.y[j][1] >= subj.y[i][1]
    \/ /\ subj.delta[j][2] = 0
       /\ subj.delta[j][1] = 1
       /\ subj.y[j][1] <= subj.y[i][1]
       /\ subj.y[j][2] >= subj.y[i][1]

\* The weight delta[:,0] alone: every observed failure, whatever its cause.
EventWeight_AnyCause(i) == subj.delta[i][1]

\* delta[:,0]*delta[:,1], the vector both dot products of the return statement use.
EventWeight(i) == subj.delta[i][1] * subj.delta[i][2]

\* The index of the loop iteration about to run (Python's i, plus one).
LoopIndex == IF obj.pc = "notcalled" THEN 1 ELSE obj.i + 1

\* competing_risk_objective, one iteration of for i in range(0, n).
CrRiskset ==
    /\ SimAt("make_data", "done")
    /\ obj.pc \in {"notcalled", "loop"}
    /\ LoopIndex <= subj.n
    /\ obj' = [pc |-> "loop", i |-> LoopIndex,
               riskset |-> [i \in 1..LoopIndex |->
                              IF i = LoopIndex THEN {j \in 1..subj.n : InRiskset(j, i)}
                              ELSE obj.riskset[i]]]
    /\ UNCHANGED <<sim, subj>>
    /\ UNCHANGED notSim

\* competing_risk_objective, the return statement:
\* jnp.dot(delta[:,0]*delta[:,1], logsum)/n - jnp.dot(delta[:,0]*delta[:,1], Xbeta)/n
CrReturn ==
    /\ SimAt("make_data", "done")
    /\ obj.pc = "loop" /\ obj.i = subj.n
    /\ obj' = [pc |-> "returned", riskset |-> obj.riskset,
               logsum |-> [i \in 1..subj.n |-> EventWeight(i)],
               Xbeta |-> [i \in 1..subj.n |-> 0 - EventWeight(i)],
               div |-> subj.n]
    /\ UNCHANGED <<sim, subj>>
    /\ UNCHANGED notSim

\* The comparison of the at-risk indicator turned around.
AtRisk_Earlier(j, i, k) == subj.y[j][k] <= subj.y[i][k]

\* (y[:,0] >= y[:,0][i])[j] for k = 1 and (y[:,1] >= y[:,1][i])[j] for k = 2.
AtRisk(j, i, k) == subj.y[j][k] >= subj.y[i][k]

\* multivariate_failure_objective, one iteration of for i in range(0, n): the
\* entries i of logsum1 and logsum2.
MfLogsum ==
    /\ SimAt("make_Clayton2_data", "done")
    /\ obj.pc \in {"notcalled", "loop"}
    /\ LoopIndex <= subj.n
    /\ obj' = [pc |-> "loop", i |-> LoopIndex,
               atrisk |-> [i \in 1..LoopIndex |->
                             IF i = LoopIndex
                             THEN [k \in {1, 2} |-> {j \in 1..subj.n : AtRisk(j, i, k)}]
                             ELSE obj.atrisk[i]]]
    /\ UNCHANGED <<sim, subj>>
    /\ UNCHANGED notSim

\* multivariate_failure_objective, the return statement:
\* (jnp.dot(delta[:,0],logsum1)+jnp.dot(delta[:,1],logsum2)
\*  -jnp.dot(delta[:,0], Xbeta)-jnp.dot(delta[:,1], Xbeta))/n
MfReturn ==
    /\ SimAt("make_Clayton2_data", "done")
    /\ obj.pc = "loop" /\ obj.i = subj.n
    /\ obj' = [pc |-> "returned", atrisk |-> obj.atrisk,
               logsum |-> [i \in 1..subj.n |-> [k \in {1, 2} |-> subj.delta[i][k]]],
               Xbeta |-> [i \in 1..subj.n |-> 0 - subj.delta[i][1] - subj.delta[i][2]],
               div |-> subj.n]
    /\ UNCHANGED <<sim, subj>>
    /\ UNCHANGED notSim

InitSim ==
    /\ sim \in {[fn |-> "make_data", pc |-> "draw", n |-> NSim],
                [fn |-> "make_Clayton2_data", pc |-> "draw", n |-> NClay]}
    /\ subj = <<>>
    /\ obj = [pc |-> "notcalled"]
    /\ IdleNb /\ IdleBeta /\ IdleRss /\ IdleGrp /\ IdleCoef /\ IdleTwin
NextSim ==
    \/ MdDraw \/ MdDelta \/ MdTruncate \/ MdReturn
    \/ ClDraw \/ ClDelta \/ ClTruncate \/ ClReturn
    \/ CrRiskset \/ CrReturn \/ MfLogsum \/ MfReturn
SpecSim == InitSim /\ [][NextSim]_vars

\* The multivariate failure time example alone, on a sample of NMf subjects.
InitMf ==
    /\ sim = [fn |-> "make_Clayton2_data", pc |-> "draw", n |-> NMf]
    /\ subj = <<>>
    /\ obj = [pc |-> "notcalled"]
    /\ IdleNb /\ IdleBeta /\ IdleRss /\ IdleGrp /\ IdleCoef /\ IdleTwin
NextMf == ClDraw \/ ClDelta \/ ClTruncate \/ ClReturn \/ MfLogsum \/ MfReturn
SpecMf == InitMf /\ [][NextMf]_vars

\* The failure and censoring time of subject i for the event type of column k of
\* the returned delta (make_data has the one event of column 1).
FailT(i, k) == IF sim.fn = "make_data" THEN subj.T[i] ELSE subj.T[i][k]
CensT(i, k) == IF sim.fn = "make_data" THEN subj.C[i] ELSE subj.C[i][k]
EventCols == IF sim.fn = "make_data" THEN {1} ELSE {1, 2}

\* C8: the censoring indicator returned by both simulators is I(T <= C): 1 exactly
\* when the failure time is at most the censoring time.
C8_DeltaIsTLeqC ==
    (sim.pc = "done") =>
        \A i \in 1..subj.n : \A k \in EventCols :
            subj.delta[i][k] = (IF FailT(i, k) <= CensT(i, k) THEN 1 ELSE 0)

\* C9: the observed times returned by both simulators are min(T, C) (column 0 of
\* y for make_data, both columns for make_Clayton2_data), and the indicator is
\* computed while the time variables still hold the untruncated failure times.
C9_ObservedIsMin ==
    /\ (sim.pc = "truncate" /\ sim.fn = "make_data") => subj.time = subj.T
    /\ (sim.pc = "truncate" /\ sim.fn = "make_Clayton2_data") =>
          \A i \in 1..subj.n : <<subj.time1[i], subj.time2[i]>> = subj.T[i]
    /\ (sim.pc = "done") =>
          \A i \in 1..subj.n : \A k \in EventCols :
              /\ subj.y[i][k] = (IF FailT(i, k) <= CensT(i, k) THEN FailT(i, k) ELSE CensT(i, k))
              /\ subj.y[i][k] <= FailT(i, k) /\ subj.y[i][k] <= CensT(i, k)
              /\ subj.delta[i][k] = Indicator(FailT(i, k), CensT(i, k))

\* make_Clayton2_data has returned a sample in which one failure time was cut down
\* to its censoring time and the other was observed.
C9_Witness ==
    /\ SimAt("make_Clayton2_data", "done")
    /\ \E i \in 1..subj.n :
          /\ subj.T[i][1] > subj.C[i][1] /\ subj.y[i][1] = subj.C[i][1]
          /\ subj.T[i][2] < subj.C[i][2] /\ subj.y[i][2] = subj.T[i][2]

\* C11: for every subject i the risk set competing_risk_objective sums over is
\* { j : X_j >= X_i } together with { j : T_j <= X_i <= C_j and the cause of
\* failure of j is not cause 1 }, with X = y[:,0] the observed time, C = y[:,1]
\* the censoring time, T the failure time and delta[:,1] the cause.
C11_RisksetAsDefined ==
    (sim.fn = "make_data" /\ obj.pc = "returned") =>
        \A i \in 1..subj.n :
            obj.riskset[i] =
                {j \in 1..subj.n : subj.y[j][1] >= subj.y[i][1]}
                \cup {j \in 1..subj.n : /\ subj.T[j] <= subj.y[i][1]
                                        /\ subj.y[i][1] <= subj.C[j]
                                        /\ subj.delta[j][2] # 1}

\* The objective has returned on a sample in which a subject that failed earlier
\* from the other cause is in the risk set of a subject observed later.
C11_Witness ==
    /\ sim.fn = "make_data" /\ obj.pc = "returned"
    /\ \E i, j \in 1..subj.n :
          /\ j \in obj.riskset[i]
          /\ subj.y[j][1] < subj.y[i][1]
          /\ subj.delta[j] = <<1, 0>>

\* C12: the term of subject i enters competing_risk_objective exactly when the
\* subject is uncensored (delta[i,0] == 1) and failed from the cause of interest
\* (delta[i,1] == 1); the log-sum and the linear part of every other subject
\* have coefficient 0.
C12_OnlyEventsOfInterest ==
    (sim.fn = "make_data" /\ obj.pc = "returned") =>
        \A i \in 1..subj.n :
            LET counts == subj.delta[i][1] = 1 /\ subj.delta[i][2] = 1
            IN /\ obj.logsum[i] = (IF counts THEN 1 ELSE 0)
               /\ obj.Xbeta[i] = (IF counts THEN -1 ELSE 0)

\* The objective has returned on a sample with one failure from the cause of
\* interest and one failure from the other cause, the second in the risk set of
\* the first.
C12_Witness ==
    /\ sim.fn = "make_data" /\ obj.pc = "returned"
    /\ \E i, j \in 1..subj.n :
          /\ subj.delta[i] = <<1, 1>> /\ obj.logsum[i] = 1
          /\ subj.delta[j] = <<1, 0>> /\ obj.logsum[j] = 0
          /\ j \in obj.riskset[i]

\* C13: multivariate_failure_objective is -l_n(beta) / n: for each event type k
\* and each subject i with delta[i,k] == 1 it adds the log of the sum of
\* exp(beta'Z_j) over { j : X_jk >= X_ik } and subtracts beta'Z_i, a subject with
\* delta[i,k] == 0 adds nothing for event type k, and the sum is divided by n.
C13_NegLogPartialLikelihood ==
    (sim.fn = "make_Clayton2_data" /\ obj.pc = "returned") =>
        /\ obj.div = subj.n
        /\ \A i \in 1..subj.n :
              /\ \A k \in {1, 2} :
                    /\ obj.atrisk[i][k] = {j \in 1..subj.n : subj.y[j][k] >= subj.y[i][k]}
                    /\ obj.logsum[i][k] = (IF subj.delta[i][k] = 1 THEN 1 ELSE 0)
              /\ obj.Xbeta[i] = 0 - Cardinality({k \in {1, 2} : subj.delta[i][k] = 1})

\* The objective has returned on a sample in which a subject had both events
\* observed, one of them while the other subject was no longer at risk.
C13_Witness ==
    /\ sim.fn = "make_Clayton2_data" /\ obj.pc = "returned"
    /\ \E i, j \in 1..subj.n :
          /\ subj.delta[i] = <<1, 1>> /\ obj.Xbeta[i] = -2
          /\ j \notin obj.atrisk[i][1]
          /\ j \in obj.atrisk[i][2]

NObs == 1       \* rows of X
PDim == 1       \* columns of X
MaxVal == 2     \* entries of X, beta and the estimate are drawn from 0..MaxVal

RECURSIVE SumTo(_, _)
\* np.sum of the entries f[1], ..., f[n].
SumTo(f, n) == IF n = 0 THEN 0 ELSE f[n] + SumTo(f, n - 1)

\* X @ b for one row of X.
RowDot(row, b) == SumTo([j \in 1..PDim |-> row[j] * b[j]], PDim)

\* np.sum((params - beta) ** 2).round(4); rounding to 4 decimals leaves the
\* integers of this model as they are.
PrintedNumber(params, b) == SumTo([j \in 1..PDim |-> (params[j] - b[j]) * (params[j] - b[j])], PDim)

\* The residual sum of squares of an estimate: the sum over the observations of
\* (y - X @ estimate) ** 2.
ResidualSumOfSquares(X, y, est) ==
    SumTo([i \in 1..NObs |-> (y[i] - RowDot(X[i], est)) * (y[i] - RowDot(X[i], est))], NObs)

\* X = rng.normal(...); beta = ...; y = X @ beta + rng.normal(mean, 0.1, n)
RssData ==
    /\ rs.pc = "data"
    /\ \E X \in [1..NObs -> [1..PDim -> 0..MaxVal]], b \in [1..PDim -> 0..MaxVal],
          noise \in [1..NObs -> {0, 1}] :
          rs' = [pc |-> "estimate", X |-> X, beta |-> b,
                 y |-> [i \in 1..NObs |-> RowDot(X[i], b) + noise[i]]]
    /\ UNCHANGED notRss

\* params_scope = solver.solve(...), params_lasso = lasso_cv.coef_
RssEstimate ==
    /\ rs.pc = "estimate"
    /\ \E method \in {"skscope", "lasso"}, est \in [1..PDim -> 0..MaxVal] :
          rs' = [pc |-> "print", X |-> rs.X, beta |-> rs.beta, y |-> rs.y,
                 method |-> method, est |-> est]
    /\ UNCHANGED notRss

\* print(method, np.sum((params - beta) ** 2).round(4))
RssPrint ==
    /\ rs.pc = "print"
    /\ rs' = [pc |-> "printed", X |-> rs.X, beta |-> rs.beta, y |-> rs.y,
              method |-> rs.method, est |-> rs.est, out |-> PrintedNumber(rs.est, rs.beta)]
    /\ UNCHANGED notRss

InitRss == rs = [pc |-> "data"] /\ IdleNb /\ IdleSim /\ IdleBeta /\ IdleGrp /\ IdleCoef /\ IdleTwin
NextRss == RssData \/ RssEstimate \/ RssPrint
SpecRss == InitRss /\ [][NextRss]_vars

\* C10: the number printed for a method is the residual sum of squares of that
\* method's estimate, the sum over the observations of (y - X * estimate)^2.
C10_PrintedIsRss ==
    (rs.pc = "printed") => (rs.out = ResidualSumOfSquares(rs.X, rs.y, rs.est))

(***************************************************************************)
(* SpecGroup: the cells of the multinomial example that build the solver   *)
(* and reshape the parameter vector, for every number of predictors p up   *)
(* to MaxGP and every number of classes m up to MaxGM, and for the values   *)
(* of the notebook.  Flat positions, rows and columns count from 0.        *)
(***************************************************************************)
MaxGP == 3
MaxGM == 3

\* The values of n, p, k, m = 500, 20, 5, 3 the group list depends on.
MultinomialDims == [p |-> 20, m |-> 3, k |-> 5]

\* The comprehension with the inner loop variable as its expression.
GroupElem_Inner(i, j) == j

\* The expression of the comprehension [i for i in range(p) for j in range(m)].
GroupElem(i, j) == i

\* params.reshape((p, m)), in numpy's default row-major order: entry (r, c) of
\* the result is the entry of params at flat position r * m + c.
Reshape(p, m) == [r \in 0..(p - 1) |-> [c \in 0..(m - 1) |-> r * m + c]]

\* n, p, k, m = 500, 20, 5, 3 with p, m and k ranging over the bounded inputs.
GrpDims ==
    /\ gr.pc = "dims"
    /\ \E d \in {MultinomialDims}
             \cup {[p |-> pp, m |-> mm, k |-> kk] : pp \in 1..MaxGP, mm \in 1..MaxGM, kk \in 1..MaxGP} :
          /\ d.k <= d.p
          /\ gr' = [pc |-> "comp", p |-> d.p, m |-> d.m, k |-> d.k, i |-> 0, j |-> 0,
                    group |-> <<>>]
    /\ UNCHANGED notGrp

\* One element of the comprehension: the inner loop over j runs to the end before
\* the outer loop moves on to the next i.
GrpAppend ==
    /\ gr.pc = "comp"
    /\ gr.i < gr.p
    /\ gr' = [gr EXCEPT !.group = Append(@, GroupElem(gr.i, gr.j)),
                        !.j = IF gr.j + 1 < gr.m THEN gr.j + 1 ELSE 0,
                        !.i = IF gr.j + 1 < gr.m THEN gr.i ELSE gr.i + 1]
    /\ UNCHANGED notGrp

\* solver = ScopeSolver(p*(m), k, group=[...])
GrpConstruct ==
    /\ gr.pc = "comp"
    /\ gr.i = gr.p
    /\ gr' = [pc |-> "solver", p |-> gr.p, m |-> gr.m, k |-> gr.k, group |-> gr.group,
              dimension |-> gr.p * gr.m, sparsity |-> gr.k]
    /\ UNCHANGED notGrp

\* beta = params.reshape((p, m)), with params of the solver's dimension.
GrpReshape ==
    /\ gr.pc = "solver"
    /\ gr' = [pc |-> "reshaped", p |-> gr.p, m |-> gr.m, k |-> gr.k, group |-> gr.group,
              dimension |-> gr.dimension, sparsity |-> gr.sparsity,
              beta |-> Reshape(gr.p, gr.m)]
    /\ UNCHANGED notGrp

InitGrp == gr = [pc |-> "dims"] /\ IdleNb /\ IdleSim /\ IdleBeta /\ IdleRss /\ IdleCoef /\ IdleTwin
NextGrp == GrpDims \/ GrpAppend \/ GrpConstruct \/ GrpReshape
SpecGroup == InitGrp /\ [][NextGrp]_vars

\* The group of flat position t, and the row of beta that holds position t.
GroupOf(t) == gr.group[t + 1]
RowsOf(t) == {r \in 0..(gr.p - 1) : \E c \in 0..(gr.m - 1) : gr.beta[r][c] = t}

\* C18: the group list has length p * m, the dimension of the solver; flat
\* position t is in group t div m, which is its row in params.reshape((p, m));
\* every group is the m positions of one row, contiguous, the list is
\* non-decreasing, and (for p up to MaxGP) any k groups cover exactly k rows.
C18_GroupsAreRows ==
    (gr.pc = "reshaped") =>
        /\ Len(gr.group) = gr.p * gr.m
        /\ Len(gr.group) = gr.dimension
        /\ \A t \in 0..(gr.dimension - 1) :
              /\ GroupOf(t) = t \div gr.m
              /\ RowsOf(t) = {GroupOf(t)}
        /\ \A t \in 0..(gr.dimension - 2) : GroupOf(t) <= GroupOf(t + 1)
        /\ \A g \in 0..(gr.p - 1) :
              {t \in 0..(gr.dimension - 1) : GroupOf(t) = g} = (g * gr.m)..(g * gr.m + gr.m - 1)
        /\ (gr.p <= MaxGP =>
               \A G \in SUBSET (0..(gr.p - 1)) :
                   Cardinality(G) = gr.k =>
                       Cardinality(UNION {RowsOf(t) : t \in {u \in 0..(gr.dimension - 1) : GroupOf(u) \in G}})
                           = gr.k)

\* The notebook's own case: 60 positions in 20 groups of 3.
C18_Witness ==
    /\ gr.pc = "reshaped" /\ gr.p = 20 /\ gr.m = 3 /\ gr.k = 5
    /\ Len(gr.group) = 60 /\ GroupOf(59) = 19 /\ GroupOf(3) = 1

(***************************************************************************)
(* SpecCoef: what test_time does with true_support_set, real_coef and the  *)
(* coefficient vector of the generated data, for every number of features  *)
(* p up to CoefP, every support size s up to p, and CoefRep repetitions.   *)
(***************************************************************************)
CoefP == 3
CoefRep == 2

\* The values with np.arange(0, 4) in the place of np.arange(1, 4).
CoefValues_FromZero(signs) == {a * b : a \in 0..3, b \in signs}

\* The values an entry of rng.choice(np.arange(1, 4), size=s) * rng.choice(signs, size=s)
\* can take.
CoefValues(signs) == {a * b : a \in 1..3, b \in signs}

\* The signs with [1, -1] in the branch of every task.
SignsOf_Both(task) == {1, -1}

\* The second argument of the second rng.choice in the branch of a task.
SignsOf(task) == IF task = "Non-Neg" THEN {1} ELSE {1, -1}

\* np.nonzero(v)[0] as a set.
Nonzero(v) == {i \in DOMAIN v : v[i] # 0}

\* What the branch of a task passes to make_glm_data, to the abess estimator and
\* to ScopeSolver, and the body of the objective it defines.
BranchOf(task, p, s) ==
    [signs |-> SignsOf(task),
     family |-> IF task = "Logistic" THEN "binomial" ELSE "gaussian",
     data |-> [k |-> s, p |-> p, coef_ |-> "real_coef"],
     model |-> IF task = "Logistic" THEN "LogisticRegression" ELSE "LinearRegression",
     model_args |-> [support_size |-> s],
     objective |-> IF task = "Logistic"
                   THEN <<"xbeta = jnp.clip(X @ params, -30, 30)",
                          "return jnp.mean(jnp.log(1 + jnp.exp(xbeta)) - y * xbeta)">>
                   ELSE <<"loss = jnp.mean((y - X @ params) ** 2)", "return loss">>,
     solver |-> [dimensionality |-> p, kwargs |-> [sparsity |-> s]]]

\* The numerator with the number of selected indices in the place of the
\* intersection.
Numerator_Selected(selected, reference) == Cardinality(selected)

\* len(set(selected) & set(reference))
Numerator(selected, reference) == Cardinality(selected \cap reference)

\* len(...) / s, kept as the fraction num / den.
Accuracy(selected, reference, s) == [num |-> Numerator(selected, reference), den |-> s]

\* test_time(n=n, p=p, s=s, rep=rep), up to the creation of the result table.
CfCall ==
    /\ cf.pc = "call"
    /\ \E pp \in 1..CoefP : \E ss \in 1..pp :
          cf' = [pc |-> "rep", p |-> pp, s |-> ss, rep |-> CoefRep, i |-> 0]
    /\ UNCHANGED notCoef

\* for i in range(rep): rng = np.random.default_rng(i);
\* true_support_set = rng.choice(np.arange(p), size=s, replace=False);
\* real_coef = np.zeros(p).  When the range is exhausted the function goes on to
\* the aggregation of the table.
CfRep ==
    /\ cf.pc = "rep"
    /\ IF cf.i < cf.rep
       THEN \E S \in SUBSET (0..(cf.p - 1)) :
               /\ Cardinality(S) = cf.s
               /\ cf' = [pc |-> "branch", p |-> cf.p, s |-> cf.s, rep |-> cf.rep, i |-> cf.i,
                         task |-> 1, true_support_set |-> S,
                         real_coef |-> [x \in 0..(cf.p - 1) |-> 0], cfg |-> <<>>]
       ELSE cf' = [pc |-> "done", p |-> cf.p, s |-> cf.s, rep |-> cf.rep, i |-> cf.i]
    /\ UNCHANGED notCoef

\* The branch of the current task:
\* real_coef[true_support_set] = rng.choice(...) * rng.choice(...);
\* data = make_glm_data(..., coef_=real_coef), whose coef_ is the vector passed;
\* then the estimator, the objective and the solver, kept in cfg by task.
CfBranch ==
    /\ cf.pc = "branch"
    /\ \E v \in [cf.true_support_set -> CoefValues(SignsOf(Tasks[cf.task]))] :
          LET coef == [x \in 0..(cf.p - 1) |->
                         IF x \in cf.true_support_set THEN v[x] ELSE cf.real_coef[x]]
          IN cf' = [pc |-> "abess", p |-> cf.p, s |-> cf.s, rep |-> cf.rep, i |-> cf.i,
                    task |-> cf.task, true_support_set |-> cf.true_support_set,
                    real_coef |-> coef, data_coef |-> coef,
                    cfg |-> Append(cf.cfg, BranchOf(Tasks[cf.task], cf.p, cf.s))]
    /\ UNCHANGED notCoef

\* model.fit(X, y);
\* acc_abess = len(set(np.nonzero(model.coef_)[0]) & set(true_support_set)) / s,
\* recorded in a row of res.  The fitted model may have any positions non-zero.
CfAbess ==
    /\ cf.pc = "abess"
    /\ \E selected \in SUBSET (0..(cf.p - 1)) :
          cf' = [pc |-> "skscope", p |-> cf.p, s |-> cf.s, rep |-> cf.rep, i |-> cf.i,
                 task |-> cf.task, true_support_set |-> cf.true_support_set,
                 real_coef |-> cf.real_coef, data_coef |-> cf.data_coef, cfg |-> cf.cfg,
                 ref_abess |-> cf.true_support_set, div_abess |-> cf.s,
                 selected |-> selected,
                 acc |-> Accuracy(selected, cf.true_support_set, cf.s)]
    /\ UNCHANGED notCoef

\* params = solver.solve(objective, jit=True);
\* acc_skscope = len(set(np.nonzero(params)[0]) & set(np.nonzero(data.coef_)[0])) / s,
\* recorded in a row of res.  params may have any positions non-zero.
CfSkscope ==
    /\ cf.pc = "skscope"
    /\ \E selected \in SUBSET (0..(cf.p - 1)) :
          cf' = [pc |-> "next", p |-> cf.p, s |-> cf.s, rep |-> cf.rep, i |-> cf.i,
                 task |-> cf.task, true_support_set |-> cf.true_support_set,
                 real_coef |-> cf.real_coef, data_coef |-> cf.data_coef, cfg |-> cf.cfg,
                 ref_abess |-> cf.ref_abess, div_abess |-> cf.div_abess,
                 ref_skscope |-> Nonzero(cf.data_coef), div_skscope |-> cf.s,
                 solve |-> [objective |-> cf.cfg[cf.task].objective, kwargs |-> {"jit"}],
                 selected |-> selected,
                 acc |-> Accuracy(selected, Nonzero(cf.data_coef), cf.s)]
    /\ UNCHANGED notCoef

\* The end of the body of the task loop: the next task with the same real_coef,
\* or the next repetition.
CfNext ==
    /\ cf.pc = "next"
    /\ IF cf.task < Len(Tasks)
       THEN cf' = [pc |-> "branch", p |-> cf.p, s |-> cf.s, rep |-> cf.rep, i |-> cf.i,
                   task |-> cf.task + 1, true_support_set |-> cf.true_support_set,
                   real_coef |-> cf.real_coef, cfg |-> cf.cfg]
       ELSE cf' = [pc |-> "rep", p |-> cf.p, s |-> cf.s, rep |-> cf.rep, i |-> cf.i + 1]
    /\ UNCHANGED notCoef

InitCoef == cf = [pc |-> "call"] /\ IdleNb /\ IdleSim /\ IdleBeta /\ IdleRss /\ IdleGrp /\ IdleTwin
NextCoef == CfCall \/ CfRep \/ CfBranch \/ CfAbess \/ CfSkscope \/ CfNext
SpecCoef == InitCoef /\ [][NextCoef]_vars

\* C20: whenever data has been generated or an accuracy computed, the non-zero
\* positions of real_coef are exactly true_support_set, which has s elements;
\* the vector the data carries has the same non-zero positions, so both
\* accuracies are measured against the same set and divided by its size; and
\* before the first task of a repetition real_coef is all zeros.
C20_SupportIsTrueSupport ==
    /\ (cf.pc \in {"branch", "abess", "skscope", "next"} =>
           /\ Cardinality(cf.true_support_set) = cf.s
           /\ cf.true_support_set \subseteq DOMAIN cf.real_coef)
    /\ (cf.pc = "branch" =>
           Nonzero(cf.real_coef) = (IF cf.task = 1 THEN {} ELSE cf.true_support_set))
    /\ (cf.pc \in {"abess", "skscope", "next"} =>
           /\ Nonzero(cf.real_coef) = cf.true_support_set
           /\ Nonzero(cf.data_coef) = cf.true_support_set
           /\ \A x \in cf.true_support_set : cf.real_coef[x] \in {1, 2, 3, -1, -2, -3})
    /\ (cf.pc = "next" =>
           /\ cf.ref_abess = cf.ref_skscope
           /\ cf.ref_skscope = cf.true_support_set
           /\ Cardinality(cf.ref_skscope) = cf.div_skscope
           /\ cf.div_abess = cf.div_skscope)

\* Both accuracies of the last task of the second repetition have been computed,
\* on a support that leaves a position of real_coef at zero.
C20_Witness ==
    /\ cf.pc = "next" /\ cf.i = 1 /\ cf.task = 3
    /\ cf.s < cf.p /\ cf.ref_skscope = cf.true_support_set

\* C26: once the branch of 'Non-Neg' has run, what it passed is what the branch
\* of 'Linear' passed in the same repetition (family 'gaussian', the same
\* arguments of make_glm_data, LinearRegression(support_size=s), the same
\* objective body, ScopeSolver(p, sparsity=s)) except for the signs, [1] against
\* [1, -1]; neither estimator nor solver is given any other argument, solve is
\* given the objective and jit only; and during the 'Non-Neg' task real_coef is
\* non-negative with its non-zero entries in {1, 2, 3}.
C26_NonNegDiffersInSignOnly ==
    /\ (cf.pc \in {"abess", "skscope", "next"} /\ cf.task >= 2 =>
           LET L == cf.cfg[1]
               N == cf.cfg[2]
           IN /\ Tasks[1] = "Linear" /\ Tasks[2] = "Non-Neg"
              /\ L.signs = {1, -1} /\ N.signs = {1}
              /\ N.family = "gaussian" /\ N.family = L.family
              /\ N.data = L.data
              /\ N.model = "LinearRegression" /\ N.model = L.model
              /\ N.model_args = L.model_args
              /\ N.objective = L.objective
              /\ N.solver = L.solver
              /\ [N EXCEPT !.signs = L.signs] = L
              /\ DOMAIN N.model_args = {"support_size"}
              /\ DOMAIN N.solver.kwargs = {"sparsity"}
              /\ N.solver.dimensionality = cf.p /\ N.solver.kwargs.sparsity = cf.s)
    /\ (cf.pc \in {"abess", "skscope", "next"} /\ cf.task = 2 =>
           /\ \A x \in DOMAIN cf.real_coef : cf.real_coef[x] >= 0
           /\ \A x \in cf.true_support_set : cf.real_coef[x] \in {1, 2, 3}
           /\ cf.data_coef = cf.real_coef)
    /\ (cf.pc = "next" /\ cf.task \in {1, 2} =>
           /\ cf.solve.kwargs = {"jit"}
           /\ cf.solve.objective = cf.cfg[1].objective)

\* The 'Non-Neg' task of the second repetition has been solved, with three
\* features of which the first has coefficient 3 and the last coefficient 1.
C26_Witness ==
    /\ cf.pc = "next" /\ cf.i = 1 /\ cf.task = 2 /\ cf.p = 3 /\ cf.s = 2
    /\ cf.real_coef[0] = 3 /\ cf.real_coef[1] = 0 /\ cf.real_coef[2] = 1
    /\ cf.cfg[2].signs = {1} /\ cf.cfg[2].solver = cf.cfg[1].solver

\* C27: an accuracy that has been computed is the fraction num / s in which num
\* is the number of selected positions that are in true_support_set, a set of
\* exactly s >= 1 elements, so that num is one of 0, 1, ..., s; this for the
\* accuracy of abess and for that of skscope, and for any set of selected
\* positions, larger than s included.
C27_AccuracyInUnitGrid ==
    (cf.pc \in {"skscope", "next"}) =>
        /\ cf.s >= 1 /\ cf.acc.den = cf.s
        /\ Cardinality(cf.true_support_set) = cf.s
        /\ cf.acc.num = Cardinality(cf.selected \cap cf.true_support_set)
        /\ cf.acc.num \in 0..cf.s

\* The accuracy of skscope has been computed on a result with more than s
\* non-zero positions that contains the whole true support: it is s / s.
C27_Witness ==
    /\ cf.pc = "next" /\ cf.s < cf.p
    /\ Cardinality(cf.selected) > cf.s
    /\ cf.true_support_set \subseteq cf.selected
    /\ cf.acc = [num |-> cf.s, den |-> cf.s]

(***************************************************************************)
(* SpecTwin: two calls of test_time with the same p, s and rep and two     *)
(* different values of random_state, executed side by side, one statement  *)
(* of each per step.  A value drawn from a generator is kept as the draw   *)
(* it is: the seed of the generator and the number of draws made from it   *)
(* before; numpy generators are deterministic, so two draws are the same   *)
(* value when these agree.                                                 *)
(***************************************************************************)
MaxRandomState == 1

\* The values of the argument random_state: None (the default, written -1) or a
\* seed.
RandomStates == {-1} \cup (0..MaxRandomState)

\* test_time before its first repetition: no generator yet.
NoRng == [def |-> FALSE, seed |-> 0, pos |-> 0]
NoDraw == [def |-> FALSE, seed |-> 0, pos |-> 0, size |-> 0, from |-> 0]
NoCoef == [def |-> FALSE, len |-> 0, at |-> NoDraw, mag |-> <<>>, sign |-> <<>>, signs |-> {}]

\* The seed with the first line of the commented-out block in force:
\* rng = np.random.default_rng(random_state).
SeedOf_RandomState(i, random_state) == random_state

\* rng = np.random.default_rng(i): the seed of the generator of repetition i.
SeedOf(i, random_state) == i

\* The frame of test_time(p=pp, s=ss, random_state=r, rep=CoefRep) on entry.
NewCall(r, pp, ss) ==
    [random_state |-> r, p |-> pp, s |-> ss, rep |-> CoefRep,
     pc |-> "rep", i |-> 0, task |-> 0,
     rng |-> NoRng, true_support_set |-> NoDraw, real_coef |-> NoCoef,
     trace |-> <<>>]

\* One statement of test_time in the frame c.
\*   rep:     for i in range(rep)
\*   seed:    rng = np.random.default_rng(i)
\*   support: true_support_set = rng.choice(np.arange(p), size=s, replace=False);
\*            real_coef = np.zeros(p)
\*   coef:    real_coef[true_support_set] = rng.choice(np.arange(1, 4), size=s)
\*                                          * rng.choice(signs, size=s)
\*   body:    the rest of the body of the task loop (data, fit, solve, two rows)
StepCall(c) ==
    CASE c.pc = "rep" ->
            IF c.i < c.rep
            THEN [c EXCEPT !.pc = "seed", !.trace = Append(@, "for")]
            ELSE [c EXCEPT !.pc = "done", !.trace = Append(@, "aggregate")]
      [] c.pc = "seed" ->
            [c EXCEPT !.pc = "support",
                      !.rng = [def |-> TRUE, seed |-> SeedOf(c.i, c.random_state), pos |-> 0],
                      !.trace = Append(@, "default_rng")]
      [] c.pc = "support" ->
            [c EXCEPT !.pc = "coef", !.task = 1,
                      !.true_support_set = [def |-> TRUE, seed |-> c.rng.seed, pos |-> c.rng.pos,
                                            size |-> c.s, from |-> c.p],
                      !.rng = [@ EXCEPT !.pos = @ + 1],
                      !.real_coef = [def |-> TRUE, len |-> c.p, at |-> NoDraw,
                                     mag |-> <<>>, sign |-> <<>>, signs |-> {}],
                      !.trace = Append(@, "choice")]
      [] c.pc = "coef" ->
            [c EXCEPT !.pc = "body",
                      !.real_coef = [def |-> TRUE, len |-> c.p, at |-> c.true_support_set,
                                     mag |-> <<c.rng.seed, c.rng.pos>>,
                                     sign |-> <<c.rng.seed, c.rng.pos + 1>>,
                                     signs |-> SignsOf(Tasks[c.task])],
                      !.rng = [@ EXCEPT !.pos = @ + 2],
                      !.trace = Append(@, Tasks[c.task])]
      [] c.pc = "body" ->
            IF c.task < Len(Tasks)
            THEN [c EXCEPT !.pc = "coef", !.task = @ + 1, !.trace = Append(@, "rows")]
            ELSE [c EXCEPT !.pc = "rep", !.i = @ + 1, !.trace = Append(@, "rows")]
      [] OTHER -> c

\* The two calls are made: the same p, s and rep, two values of random_state.
TwCall ==
    /\ tw.pc = "call"
    /\ \E pp \in 1..CoefP : \E ss \in 1..pp :
       \E ra \in RandomStates : \E rb \in RandomStates \ {ra} :
          tw' = [pc |-> "run", A |-> NewCall(ra, pp, ss), B |-> NewCall(rb, pp, ss)]
    /\ UNCHANGED notTwin

\* Each call executes its next statement.
TwStep ==
    /\ tw.pc = "run"
    /\ tw.A.pc # "done" \/ tw.B.pc # "done"
    /\ tw' = [pc |-> "run", A |-> StepCall(tw.A), B |-> StepCall(tw.B)]
    /\ UNCHANGED notTwin

InitTwin == tw = [pc |-> "call"] /\ IdleNb /\ IdleSim /\ IdleBeta /\ IdleRss /\ IdleGrp /\ IdleCoef
NextTwin == TwCall \/ TwStep
SpecTwin == InitTwin /\ [][NextTwin]_vars

\* A frame of test_time without the argument random_state.
Locals(c) == [c EXCEPT !.random_state = 0]

\* C25: two calls of test_time that differ only in random_state are, after the
\* same number of statements, at the same statement with the same generator,
\* the same draw for true_support_set, the same draws in real_coef and the same
\* sequence of operations behind them; and in each of them the generator of
\* repetition i, and what is drawn from it, has seed i.
C25_RandomStateHasNoEffect ==
    (tw.pc = "run") =>
        /\ tw.A.random_state # tw.B.random_state
        /\ Locals(tw.A) = Locals(tw.B)
        /\ \A c \in {tw.A, tw.B} :
              /\ (c.pc \in {"support", "coef", "body"} => (c.rng.def /\ c.rng.seed = c.i))
              /\ (c.pc \in {"coef", "body"} =>
                     (c.true_support_set.seed = c.i /\ c.true_support_set.pos = 0))
              /\ (c.pc = "body" =>
                     /\ c.real_coef.at = c.true_support_set
                     /\ c.real_coef.mag = <<c.i, 2 * c.task - 1>>
                     /\ c.real_coef.sign = <<c.i, 2 * c.task>>)

\* Both calls have returned, one made with random_state=None and the other with
\* random_state=1, after two repetitions of three tasks each.
C25_Witness ==
    /\ tw.pc = "run" /\ tw.A.pc = "done" /\ tw.B.pc = "done"
    /\ tw.A.random_state = -1 /\ tw.B.random_state = 1
    /\ tw.A.i = 2 /\ tw.B.real_coef.mag = <<1, 5>>
    /\ Len(tw.A.trace) = 19 /\ tw.A.trace = tw.B.trace

=============================================================================
